---- MODULE Spec2Model ----
(***************************************************************************)
(* The HMR message channel of the dev server (createWebSocketServer), the  *)
(* browser-side HMR client runtime (client.ts), the dev command's start-up *)
(* and the server's HTML middlewares, module graph, transform pipeline and *)
(* HMR propagation, as state machines.                                     *)
(*                                                                         *)
(* SpecWs        : the server side of the channel and the wire to clients  *)
(* SpecHmr, SpecEvents, SpecPage, SpecCss : the client runtime handling    *)
(*                 the payloads it receives                                *)
(* SpecSocket, FairSocket : the client's sockets, fallback and polling     *)
(* SpecServer, SpecKeepAlive : upgrades and messages sent by clients       *)
(* SpecPlugins, SpecBoot : resolveConfig's plugin order and the dev        *)
(*                 command's start-up                                      *)
(* SpecQuery     : injectQuery                                             *)
(* SpecHttp      : the base, SPA fallback and index.html middlewares       *)
(* SpecHtml      : devHtmlHook's rewriting of a page's nodes               *)
(* FairBoot      : SpecBoot with the catch block of the dev command run    *)
(* SpecGraph, SpecInvalidate : updateModuleInfo and invalidateModule on    *)
(*                 the module graph                                        *)
(* SpecTransform : transformRequest calls, completions and invalidations   *)
(* SpecPropagate, FairPropagate : the HMR propagation for a file change    *)
(* SpecPrune     : import analysis updating the graph, and prune payloads  *)
(* SpecHooks     : getSortedPlugins of the resolved plugin list            *)
(* SpecLoaded, SpecOverlay : the client runtime on a page whose module has *)
(*                 registered its callbacks                                *)
(* SpecBundle    : loadConfigFromBundledFile                               *)
(***************************************************************************)
EXTENDS Integers, Sequences, FiniteSets, TLC

(***************************************************************************)
(* Bounds of the model                                                     *)
(***************************************************************************)
MaxConns == 2
MaxSends == 2
MaxHotCalls == 3
MaxMsgs == 3
MaxTasks == 2
MaxFrames == 2
MaxIn == 2
MaxTicks == 2
MaxPlugins == 3
MaxNodes == 3
MaxTime == 2
MaxGens == 2
MaxCallers == 2
MaxRuns == 2
MaxLog == 4
MaxCalls == 2
MaxLoads == 2

(***************************************************************************)
(* Program constants                                                       *)
(***************************************************************************)
\* ws readyState values (WebSocket.OPEN is the 1 the code compares with)
CONNECTING == 0
OPEN == 1
CLOSING == 2
CLOSED == 3

VARIABLES
  \* ---- server: createWebSocketServer ----
  wssClients,      \* wss.clients: the sockets the ws server holds
  readyState,      \* readyState of every server-side socket
  bufferedError,   \* let bufferedError: ErrorPayload | null
  sendCount,       \* number of send() calls so far; the next payload's id
  wire,            \* per socket: frames written by socket.send, not yet delivered
  received,        \* per socket: frames the browser has received, in order
  noClientErrors   \* history: error payloads passed to send() while wss.clients
                   \* was empty, each with the first connection accepted afterwards

wsVars == <<wssClients, readyState, bufferedError, sendCount, wire, received,
            noClientErrors>>

VARIABLES
  \* ---- client: injected configuration and location ----
  enableOverlay,   \* __HMR_ENABLE_OVERLAY__
  base,            \* __BASE__ || '/'
  pagePath,        \* location.pathname of the page the client runs in
  \* ---- client: HMR registry ----
  dataMap,         \* owner paths that have a data object
  hotModulesMap,   \* owner path -> HotModule (its accept callbacks)
  disposeMap,      \* owner path -> dispose callback
  pruneMap,        \* owner path -> prune callback
  customListenersMap, \* event -> listeners, in registration order
  ctxToListenersMap,  \* owner path -> the listeners its current context added
  ctxGen,          \* how many times createHotContext ran for each owner path
  ctxRegs,         \* how many callbacks each owner's current context registered
  hotCalls,        \* number of hot API calls so far
  \* ---- client: page ----
  isFirstUpdate,   \* let isFirstUpdate = true
  overlays,        \* number of error overlay elements in the document
  reloadRequested, \* location.reload() was called and the page has not unloaded
  \* ---- client: update queue ----
  pending,         \* let pending = false
  queued,          \* let queued = []
  tasks,           \* the fetchUpdate calls, in call order (importSeq: the
                   \* position of the call's re-import among the settled ones;
                   \* registered, atImport: mod.callbacks as they were when
                   \* the call was made and when its re-import started)
  batches,         \* the `loading` lists of the queueUpdate calls that flushed
  log,             \* the accept callbacks invoked so far, in invocation order
  \* ---- client: the message being handled ----
  msgCount,        \* number of payloads handled
  lastMsg,         \* the payload handleMessage handled last and what it did
  lastRun,         \* the callbacks that handleMessage call invoked itself, in order
  updateReceived   \* whether the page has received an update payload

VARIABLES
  \* ---- client: the stylesheet <link> elements of the document ----
  links,           \* the <link> elements in the document, in document order
  outdatedLinkTags, \* const outdatedLinkTags = new WeakSet()
  linkListeners,   \* clones whose load/error event has not fired yet, each with
                   \* the element its removeOldEl listener removes
  linkCount        \* number of <link> elements created so far

cssVars == <<links, outdatedLinkTags, linkListeners, linkCount>>

cfgVars == <<enableOverlay, base, pagePath>>
hotVars == <<dataMap, hotModulesMap, disposeMap, pruneMap, customListenersMap,
             ctxToListenersMap, ctxGen, ctxRegs, hotCalls>>
pageVars == <<isFirstUpdate, overlays, reloadRequested>>
queueVars == <<pending, queued, tasks, batches, log>>
msgVars == <<msgCount, lastMsg, lastRun, updateReceived>>
clientVars == <<cfgVars, hotVars, pageVars, queueVars, msgVars, cssVars>>

VARIABLES
  \* ---- client: the sockets setupWebSocket created ----
  hmrPort,         \* __HMR_PORT__ (0 for null)
  sockets,         \* the sockets in creation order, each with the isOpened and
                   \* onCloseWithoutOpen of its setupWebSocket call and the state
                   \* of the waitForSuccessfulPing call of its close listener
  serverUp,        \* whether the server answers HTTP requests at the moment
  console,         \* what the socket code has written to the console
  messageBuffer,   \* const messageBuffer: string[] = []
  clientSent,      \* per socket: the frames the client passed to socket.send
  intervals        \* number of ping timers set with setInterval

sockVars == <<hmrPort, sockets, serverUp, console, messageBuffer, clientSent,
              intervals>>

VARIABLES
  \* ---- server: upgrades and the messages clients send ----
  wsMode,          \* "shared": wsServer is set and upgrades come through its
                   \* 'upgrade' event; "standalone": ws listens on its own port
  presented,       \* per socket: the sec-websocket-protocol of its upgrade request
  customListeners, \* const customListeners = new Map(): event -> Set of listeners
  clientsMap,      \* const clientsMap = new WeakMap(): sockets that have a wrapper
  invoked,         \* the custom listeners called so far, in call order
  lastIn,          \* the client message the 'message' handler handled last
  msgsIn,          \* number of client messages handled
  badCount,        \* per socket: messages received that were not valid JSON
  silence          \* per socket: whole keep-alive intervals elapsed since the
                   \* socket was accepted or its last ping arrived

srvVars == <<wsMode, presented, customListeners, clientsMap, invoked, lastIn,
             msgsIn, badCount, silence>>

VARIABLES
  \* ---- boot: resolveConfig, createServer, listen ----
  userPlugins,     \* config.plugins: plugins and arrays of plugins as declared
  workerPlugins,   \* config.worker.plugins
  bands,           \* [prePlugins, normalPlugins, postPlugins] of sortUserPlugins
  plugins,         \* resolved.plugins
  sortedPlugins,   \* getSortedPlugins(hookName) for the hook that is modelled
  hooks,           \* the configResolved hooks, in invocation order, with the
                   \* config each was passed and whether its promise settled
  bootPhase,       \* how far the dev command has come
  serverState,     \* "none", "created" or "listening"
  configFile,      \* inlineConfig.configFile ("false": load no file)
  loadResult,      \* what loadConfigFromFile returned ("none": not called)
  failure,         \* the step of the start that threw ("none": none did)
  errorLog,        \* the errors logged, in order
  exitCode         \* the code process.exit was called with (-1: not called)

startVars == <<configFile, loadResult, failure, errorLog, exitCode>>

bootVars == <<userPlugins, workerPlugins, bands, plugins, sortedPlugins, hooks,
              bootPhase, serverState, startVars>>

VARIABLES
  \* ---- client: one call of injectQuery ----
  url,             \* the url argument
  queryToInject,   \* the queryToInject argument
  injected         \* what the call returned ("" before the call)

queryVars == <<url, queryToInject, injected>>

VARIABLES
  \* ---- server: one request going through the HTML middlewares ----
  devBase,         \* config.base
  middlewareMode,  \* config.server.middlewareMode
  files,           \* the html files that exist under config.root
  reqUrl,          \* req.url, which a middleware may rewrite
  originalUrl,     \* req.originalUrl, the url as the client sent it
  accept,          \* req.headers.accept
  secFetchDest,    \* req.headers['sec-fetch-dest']
  ran,             \* the middlewares the request has been through
  res,             \* the response written so far
  passed           \* the next() calls made, in order

httpVars == <<devBase, middlewareMode, files, reqUrl, originalUrl, accept,
              secFetchDest, ran, res, passed>>

VARIABLES
  \* ---- server: the dev transform of one html html ----
  htmlPath,        \* the path the page is transformed for
  html,            \* the elements of the page, in document order
  transformed,     \* the elements after the transform (<<>> before it)
  htmlProxyCache   \* the entries added to the html proxy cache

htmlVars == <<htmlPath, html, transformed, htmlProxyCache>>

VARIABLES
  \* ---- server: the module graph ----
  importers,                  \* per module, the modules that import it
  importedModules,            \* per module, the modules it imports
  acceptedHmrDeps,            \* per module, the dependencies it accepts
  isSelfAccepting,            \* per module, whether it accepts itself
  transformResult,            \* per module, the cached result or NoResult
  lastInvalidationTimestamp,  \* per module, 0 or the time it was invalidated
  now,                        \* the clock invalidations read
  lastInvalidated             \* the module invalidateModule was last called
                              \* for, NoModule once the graph changed again

graphVars == <<importers, importedModules, acceptedHmrDeps, isSelfAccepting,
               transformResult, lastInvalidationTimestamp, now, lastInvalidated>>

VARIABLES
  \* ---- server: transformRequest for one url ----
  pendingRequest,  \* the entry of the pending-promises map for the url
  waiting,         \* the callers that wait on it, with the generation each
                   \* made its call in
  generation,      \* how many times the url's module has been invalidated
  pipelineRuns,    \* per generation, how many times the pipeline was started
  errored,         \* the node is marked errored: the pipeline threw
  handed           \* per caller, the result its call returned and the
                   \* generation it made the call in

reqVars == <<pendingRequest, waiting, generation, pipelineRuns, errored, handed>>

VARIABLES
  \* ---- server: payloads the module graph and the HMR engine send ----
  hmrLog           \* in order: the prune and update payloads passed to
                   \* ws.send, and a mark where modules became unreachable

pruneVars == <<hmrLog>>

VARIABLES
  \* ---- config file: loadConfigFromBundledFile ----
  extLoader,       \* _require.extensions: per extension, 0 for node's own
                   \* loader or the number of the call whose loader is set
  tmpFiles,        \* the temporary .mjs files on disk
  importing,       \* the calls waiting in `await dynamicImport(fileUrl)`, each
                   \* with its fileNameTmp
  bundleResult     \* the calls that finished, in order, with their outcome

loaderVars == <<extLoader, tmpFiles, importing, bundleResult>>

VARIABLES
  \* ---- plugin container: createPluginHookUtils(plugins) ----
  sortedPluginsCache,  \* sortedPluginsCache: per hook name, the list cached
  sortedCalls          \* the getSortedPlugins calls made, in order, each with
                       \* the list it returned

hookVars == <<sortedPluginsCache, sortedCalls>>

lateVars == <<pruneVars, loaderVars, hookVars>>

VARIABLES
  \* ---- server: HMR propagation for one file change ----
  changed,         \* the modules affected by the change
  affected,        \* those of them still to be propagated from
  hmrQueue,        \* the queue of the propagation under way
  visited,         \* the modules it has popped
  boundaries,      \* the {boundary, acceptedVia} records collected
  deadEnd,         \* whether a module without importers was reached
  hmrResult        \* the payload decided on (type "none" before)

hmrVars == <<changed, affected, hmrQueue, visited, boundaries, deadEnd, hmrResult>>

\* everything but the websocket server and the client runtime
coreVars == <<sockVars, srvVars, bootVars>>

restVars == <<queryVars, httpVars, htmlVars, graphVars, hmrVars, reqVars, lateVars>>

extVars == <<coreVars, restVars>>

vars == <<wsVars, clientVars, extVars>>

(***************************************************************************)
(* Server: src/unnamed/part_006                                            *)
(***************************************************************************)
Sockets == 1..MaxConns

Range(q) == {q[i] : i \in DOMAIN q}

NoError == [type |-> "none", id |-> 0]
Connected == [type |-> "connected", id |-> 0]

\* send(payload) takes the object as is; send(event, data) wraps a custom payload
SendArgs == [form : {"object"}, type : {"update", "error"}] \cup
            [form : {"string"}, type : {"custom"}]

ToPayload(args, id) ==
  IF args.form = "string" THEN [type |-> "custom", id |-> id]
  ELSE [type |-> args.type, id |-> id]

\* socket.send writes the frame behind the frames written before it
SocketSendReordered(q, msg) == <<msg>> \o q
SocketSend(q, msg) == Append(q, msg)

\* what the connection handler sends on a fresh socket
ConnectionGreetingErrorFirst(buf) ==
  IF buf # NoError THEN <<buf, Connected>> ELSE <<Connected>>
ConnectionGreeting(buf) ==
  IF buf # NoError THEN SocketSend(SocketSend(<<>>, Connected), buf)
  ELSE SocketSend(<<>>, Connected)

\* send(): the guard of the early return that buffers the payload
ShouldBufferNever(payload, clients) == FALSE
ShouldBuffer(payload, clients) == payload.type = "error" /\ clients = {}

\* send(): the sockets the forEach writes to
OpenClients == {c \in wssClients : readyState[c] = OPEN}

\* everything socket.send has been called with on socket c, in call order
Stream(c) == received[c] \o wire[c]

WsInit ==
  /\ wssClients = {}
  /\ readyState = [c \in Sockets |-> CONNECTING]
  /\ bufferedError = NoError
  /\ sendCount = 0
  /\ wire = [c \in Sockets |-> <<>>]
  /\ received = [c \in Sockets |-> <<>>]
  /\ noClientErrors = {}

\* the connection handler, once it has sent the buffered error:
\* bufferedError = null
FlushedKept(buf) == buf
Flushed(buf) == NoError

\* an upgrade completes: ws opens the socket, adds it to wss.clients and emits
\* 'connection'; the handler greets it and flushes the buffered error
Accept(c) ==
  /\ readyState[c] = CONNECTING
  /\ \A d \in Sockets : d < c => readyState[d] # CONNECTING
  /\ readyState' = [readyState EXCEPT ![c] = OPEN]
  /\ wssClients' = wssClients \cup {c}
  /\ wire' = [wire EXCEPT ![c] = ConnectionGreeting(bufferedError)]
  /\ bufferedError' = Flushed(bufferedError)
  /\ noClientErrors' = {IF e.conn = 0 THEN [e EXCEPT !.conn = c] ELSE e :
                          e \in noClientErrors}
  /\ UNCHANGED <<sendCount, received, clientVars, extVars>>

\* WebSocketServer.send(...args)
Send(args) ==
  /\ sendCount < MaxSends
  /\ sendCount' = sendCount + 1
  /\ LET payload == ToPayload(args, sendCount + 1) IN
       IF ShouldBuffer(payload, wssClients)
       THEN /\ bufferedError' = payload
            /\ UNCHANGED wire
       ELSE /\ wire' = [c \in Sockets |->
                          IF c \in OpenClients THEN SocketSend(wire[c], payload)
                          ELSE wire[c]]
            /\ UNCHANGED bufferedError
  /\ noClientErrors' =
       IF args.type = "error" /\ wssClients = {}
       THEN noClientErrors \cup {[id |-> sendCount + 1, conn |-> 0]}
       ELSE noClientErrors
  /\ UNCHANGED <<wssClients, readyState, received, clientVars, extVars>>

\* the closing handshake starts: the socket stays in wss.clients, no longer open
BeginClose(c) ==
  /\ readyState[c] = OPEN
  /\ readyState' = [readyState EXCEPT ![c] = CLOSING]
  /\ UNCHANGED <<wssClients, bufferedError, sendCount, wire, received,
                 noClientErrors, clientVars, extVars>>

\* the socket's 'close' event: ws removes it from wss.clients
SocketClosed(c) ==
  /\ readyState[c] \in {OPEN, CLOSING}
  /\ readyState' = [readyState EXCEPT ![c] = CLOSED]
  /\ wssClients' = wssClients \ {c}
  /\ UNCHANGED <<bufferedError, sendCount, wire, received, noClientErrors,
                 clientVars, extVars>>

\* the browser receives the oldest frame in flight
Deliver(c) ==
  /\ wire[c] # <<>>
  /\ received' = [received EXCEPT ![c] = Append(@, Head(wire[c]))]
  /\ wire' = [wire EXCEPT ![c] = Tail(@)]
  /\ UNCHANGED <<wssClients, readyState, bufferedError, sendCount,
                 noClientErrors, clientVars, extVars>>

\* -------------------------------------------- upgrades and client messages
\* export const HMR_HEADER = 'vite-hmr'
HMR_HEADER == "vite-hmr"
\* sec-websocket-protocol values of upgrade requests ("" for no header)
Protocols == {HMR_HEADER, ""}
NoRequest == "-"
WsModes == {"shared", "standalone"}

\* the event custom listeners are registered for, and the listener functions
ServerEvents == {"my:event"}
Listeners == {1}

\* JSON.parse(String(raw)) inside try/catch: undefined for text that is not JSON
Undefined == [kind |-> "undefined", type |-> "", event |-> ""]
Null == [kind |-> "null", type |-> "", event |-> ""]
Obj(type, event) == [kind |-> "object", type |-> type, event |-> event]
RawMessages ==
  {[json |-> FALSE, value |-> Undefined], [json |-> TRUE, value |-> Null],
   [json |-> TRUE, value |-> Obj("ping", "")],
   [json |-> TRUE, value |-> Obj("ping", "my:event")],
   [json |-> TRUE, value |-> Obj("custom", "")],
   [json |-> TRUE, value |-> Obj("custom", "my:event")],
   [json |-> TRUE, value |-> Obj("custom", "unheard")]}
Parse(raw) == IF raw.json THEN raw.value ELSE Undefined
NoIn == [seq |-> 0, conn |-> 0, raw |-> [json |-> FALSE, value |-> Undefined]]

SrvInit(mode) ==
  /\ wsMode = mode
  /\ presented = [c \in Sockets |-> NoRequest]
  /\ customListeners = [e \in ServerEvents |-> [has |-> FALSE, fns |-> <<>>]]
  /\ clientsMap = {}
  /\ invoked = <<>>
  /\ lastIn = NoIn
  /\ msgsIn = 0
  /\ badCount = [c \in Sockets |-> 0]
  /\ silence = [c \in Sockets |-> 0]

\* whether an upgrade request ends in wss.emit('connection'): the 'upgrade'
\* listener of the shared server compares the header, a WebSocketServer that
\* listens itself is given no protocol or client check
CompletesUpgrade(mode, proto) == mode = "shared" => proto = HMR_HEADER

\* an upgrade request with sec-websocket-protocol proto arrives for socket c
Upgrade(c, proto) ==
  /\ readyState[c] = CONNECTING
  /\ presented[c] = NoRequest
  /\ \A d \in Sockets : d < c => presented[d] # NoRequest
  /\ presented' = [presented EXCEPT ![c] = proto]
  /\ IF CompletesUpgrade(wsMode, proto)
     THEN /\ readyState' = [readyState EXCEPT ![c] = OPEN]
          /\ wssClients' = wssClients \cup {c}
          /\ wire' = [wire EXCEPT ![c] = ConnectionGreeting(bufferedError)]
          /\ bufferedError' = NoError
          /\ noClientErrors' = {IF e.conn = 0 THEN [e EXCEPT !.conn = c] ELSE e :
                                  e \in noClientErrors}
     ELSE UNCHANGED <<readyState, wssClients, wire, bufferedError, noClientErrors>>
  /\ UNCHANGED <<sendCount, received>>
  /\ UNCHANGED <<wsMode, customListeners, clientsMap, invoked, lastIn, msgsIn,
                 badCount, silence>>
  /\ UNCHANGED <<clientVars, sockVars, bootVars, restVars>>

\* on(event, fn) for an event that is not one of wsServerEvents
On(e, fn) ==
  /\ fn \notin Range(customListeners[e].fns)
  /\ customListeners' = [customListeners EXCEPT
                           ![e] = [has |-> TRUE, fns |-> Append(@.fns, fn)]]
  /\ UNCHANGED <<wsMode, presented, clientsMap, invoked, lastIn, msgsIn,
                 badCount, silence>>
  /\ UNCHANGED <<wsVars, clientVars, sockVars, bootVars, restVars>>

\* off(event, fn)
Off(e, fn) ==
  /\ fn \in Range(customListeners[e].fns)
  /\ customListeners' =
       [customListeners EXCEPT
          ![e].fns = LET Other(f) == f # fn IN SelectSeq(@, Other)]
  /\ UNCHANGED <<wsMode, presented, clientsMap, invoked, lastIn, msgsIn,
                 badCount, silence>>
  /\ UNCHANGED <<wsVars, clientVars, sockVars, bootVars, restVars>>

\* customListeners.size
ListenersSize == Cardinality({e \in ServerEvents : customListeners[e].has})

\* the second early return of the 'message' handler
NotCustomEventNoTypeCheck(parsed) ==
  parsed.kind # "object" \/ parsed.event = ""
NotCustomEvent(parsed) ==
  parsed.kind # "object" \/ parsed.type # "custom" \/ parsed.event = ""

\* the listeners the 'message' handler calls for raw, in Set order
Dispatched(raw) ==
  LET parsed == Parse(raw) IN
  IF ListenersSize = 0 THEN <<>>
  ELSE IF NotCustomEvent(parsed) THEN <<>>
  ELSE IF parsed.event \notin ServerEvents THEN <<>>
  ELSE customListeners[parsed.event].fns

\* socket.on('message', (raw) => ...) for a frame from socket c
ClientMessage(c, raw) ==
  /\ readyState[c] = OPEN
  /\ msgsIn < MaxIn
  /\ msgsIn' = msgsIn + 1
  /\ lastIn' = [seq |-> msgsIn + 1, conn |-> c, raw |-> raw]
  /\ LET fns == Dispatched(raw) IN
       /\ invoked' = invoked \o
                     [i \in DOMAIN fns |->
                        [fn |-> fns[i], event |-> Parse(raw).event, conn |-> c]]
       /\ clientsMap' = IF fns # <<>> THEN clientsMap \cup {c} ELSE clientsMap
  /\ badCount' = IF raw.json THEN badCount ELSE [badCount EXCEPT ![c] = @ + 1]
  /\ silence' = IF Parse(raw).type = "ping" THEN [silence EXCEPT ![c] = 0]
                ELSE silence
  /\ UNCHANGED <<wsMode, presented, customListeners>>
  /\ UNCHANGED <<wsVars, clientVars, sockVars, bootVars, restVars>>

\* one more keep-alive interval (__HMR_TIMEOUT__) has elapsed
Tick ==
  /\ \E c \in Sockets : readyState[c] = OPEN /\ silence[c] < MaxTicks
  /\ silence' = [c \in Sockets |->
                   IF readyState[c] = OPEN /\ silence[c] < MaxTicks
                   THEN silence[c] + 1 ELSE silence[c]]
  /\ UNCHANGED <<wsMode, presented, customListeners, clientsMap, invoked,
                 lastIn, msgsIn, badCount>>
  /\ UNCHANGED <<wsVars, clientVars, sockVars, bootVars, restVars>>

(***************************************************************************)
(* Boot: src/unnamed/part_005 (resolveConfig), plugins/index.ts, cli.ts    *)
(***************************************************************************)
\* a plugin as far as ordering goes: its enforce, and the hook that is
\* modelled: absent, a function, or an object { order, handler }
Enforces == {"pre", "none", "post"}
HookForms == {"absent", "fn", "pre", "post"}
\* the hooks whose sorted lists are modelled
HookNames == {"configResolved", "transform"}
\* the internal server-only plugins
ServerOnly == {"vite:client-inject", "vite:import-analysis"}
UserPlugin(id, enforce, hook) ==
  [name |-> "user", id |-> id, enforce |-> enforce, hook |-> hook]
Internal(name, hook) == [name |-> name, id |-> 0, enforce |-> "none", hook |-> hook]

\* plugins.flat()
RECURSIVE Flat(_)
Flat(groups) == IF groups = <<>> THEN <<>> ELSE Head(groups) \o Flat(Tail(groups))

\* the declared plugins ps, given one by one or in arrays of two
RECURSIVE Pairs(_)
Pairs(ps) == IF Len(ps) <= 2 THEN IF ps = <<>> THEN <<>> ELSE <<ps>>
             ELSE <<SubSeq(ps, 1, 2)>> \o Pairs(SubSeq(ps, 3, Len(ps)))
Singles(ps) == [i \in DOMAIN ps |-> <<ps[i]>>]

\* the user plugin lists of n plugins with the given enforce and hook values
PluginLists(n, enforces, forms) ==
  {[i \in 1..n |-> UserPlugin(i, f[i][1], f[i][2])] :
     f \in [1..n -> enforces \X forms]}

\* sortUserPlugins: the band each plugin is pushed to
BandOfNoPost(p) == IF p.enforce = "pre" THEN 1 ELSE 2
BandOf(p) == IF p.enforce = "pre" THEN 1 ELSE IF p.enforce = "post" THEN 3 ELSE 2

SortUserPlugins(groups) ==
  LET flat == Flat(groups)
      In(b) == LET Is(p) == BandOf(p) = b IN SelectSeq(flat, Is)
  IN <<In(1), In(2), In(3)>>

\* resolvePlugins when serving: the built-in plugins around the three bands,
\* one built-in plugin standing for each run of them
ResolvePlugins(prePlugins, normalPlugins, postPlugins) ==
  <<Internal("alias", "absent")>> \o prePlugins \o
  <<Internal("vite:resolve", "fn")>> \o normalPlugins \o
  <<Internal("vite:define", "absent")>> \o postPlugins \o
  <<Internal("vite:client-inject", "absent"), Internal("vite:import-analysis", "absent")>>

\* plugin[hookName]: absent, a function ("fn"), an object without order
\* ("obj") or with order 'pre' or 'post'; the server-only plugins define
\* transform as a function and have no configResolved hook
HookOf(p, hookName) ==
  IF p.name \in ServerOnly
  THEN IF hookName = "transform" THEN "fn" ELSE "absent"
  ELSE p.hook

GetSortedPluginsByHookUnsorted(hookName, ps) ==
  LET Defines(p) == HookOf(p, hookName) # "absent" IN SelectSeq(ps, Defines)

\* getSortedPluginsByHook(hookName, plugins)
GetSortedPluginsByHook(hookName, ps) ==
  LET Pre(p) == HookOf(p, hookName) = "pre"
      Post(p) == HookOf(p, hookName) = "post"
      Normal(p) == HookOf(p, hookName) \in {"fn", "obj"}
  IN SelectSeq(ps, Pre) \o SelectSeq(ps, Normal) \o SelectSeq(ps, Post)

BootStart(groups, worker, file) ==
  /\ userPlugins = groups
  /\ workerPlugins = worker
  /\ bands = <<>>
  /\ plugins = <<>>
  /\ sortedPlugins = <<>>
  /\ hooks = <<>>
  /\ bootPhase = "start"
  /\ serverState = "none"
  /\ configFile = file
  /\ loadResult = "none"
  /\ failure = "none"
  /\ errorLog = <<>>
  /\ exitCode = -1

\* a start with configFile: false
BootInit(groups, worker) == BootStart(groups, worker, "false")

\* resolveConfig: if (configFile !== false) loadResult = await
\* loadConfigFromFile(...); it returns the config, returns null when there
\* is no config file, or logs and rethrows what loading threw
LoadConfigFromFile(outcome) ==
  /\ bootPhase = "start"
  /\ configFile # "false"
  /\ loadResult = "none"
  /\ IF outcome = "threw"
     THEN /\ errorLog' = Append(errorLog, "failed to load config")
          /\ failure' = "config"
          /\ bootPhase' = "failed"
          /\ loadResult' = loadResult
     ELSE /\ loadResult' = outcome
          /\ UNCHANGED <<errorLog, failure, bootPhase>>
  /\ UNCHANGED <<userPlugins, workerPlugins, bands, plugins, sortedPlugins, hooks,
                 serverState, configFile, exitCode>>
  /\ UNCHANGED <<wsVars, clientVars, sockVars, srvVars, restVars>>

\* resolveConfig: sortUserPlugins(rawUserPlugins)
SortStep ==
  /\ bootPhase = "start"
  /\ configFile = "false" \/ loadResult # "none"
  /\ bands' = SortUserPlugins(userPlugins)
  /\ bootPhase' = "sorted"
  /\ UNCHANGED <<userPlugins, workerPlugins, plugins, sortedPlugins, hooks,
                 serverState>>
  /\ UNCHANGED startVars
  /\ UNCHANGED <<wsVars, clientVars, sockVars, srvVars, restVars>>

\* resolveConfig: resolved.plugins = await resolvePlugins(...)
ResolveStep ==
  /\ bootPhase = "sorted"
  /\ plugins' = ResolvePlugins(bands[1], bands[2], bands[3])
  /\ bootPhase' = "resolved"
  /\ UNCHANGED <<userPlugins, workerPlugins, bands, sortedPlugins, hooks,
                 serverState>>
  /\ UNCHANGED startVars
  /\ UNCHANGED <<wsVars, clientVars, sockVars, srvVars, restVars>>

\* createPluginHookUtils(resolved.plugins).getSortedPlugins(hookName)
GetSortedPlugins ==
  /\ bootPhase = "resolved"
  /\ sortedPlugins' = GetSortedPluginsByHook("configResolved", plugins)
  /\ bootPhase' = "hooksSorted"
  /\ UNCHANGED <<userPlugins, workerPlugins, bands, plugins, hooks, serverState>>
  /\ UNCHANGED startVars
  /\ UNCHANGED <<wsVars, clientVars, sockVars, srvVars, restVars>>

\* sortedPluginsCache.has(hookName)
UseCache(cache, hookName) == cache[hookName].has

\* getSortedPlugins(hookName) of createPluginHookUtils(resolved.plugins): the
\* cached list, or the list getSortedPluginsByHook returns, which is cached
GetSortedPluginsCached(hookName) ==
  LET sorted == IF UseCache(sortedPluginsCache, hookName)
                THEN sortedPluginsCache[hookName].list
                ELSE GetSortedPluginsByHook(hookName, plugins)
  IN
  /\ bootPhase = "resolved"
  /\ Len(sortedCalls) < MaxCalls
  /\ sortedPluginsCache' =
       [sortedPluginsCache EXCEPT ![hookName] = [has |-> TRUE, list |-> sorted]]
  /\ sortedCalls' = Append(sortedCalls, [hookName |-> hookName, list |-> sorted])
  /\ UNCHANGED <<wsVars, clientVars, coreVars, queryVars, httpVars, htmlVars, graphVars, hmrVars, reqVars, pruneVars, loaderVars>>

\* getSortedPluginHooks('configResolved') of the main and of the worker
\* plugin list, each hook with the config it is to be passed
ConfigResolvedHooks ==
  LET main == sortedPlugins
      workerBands == SortUserPlugins(workerPlugins)
      worker == GetSortedPluginsByHook("configResolved",
                  ResolvePlugins(workerBands[1], workerBands[2], workerBands[3]))
  IN [i \in DOMAIN main |->
        [plugin |-> main[i], arg |-> "resolved", state |-> "pending"]] \o
     [i \in DOMAIN worker |->
        [plugin |-> worker[i], arg |-> "workerResolved", state |-> "pending"]]

\* await Promise.all([...]): whether the await resumes normally
AnyFulfilled(hs) == hs = <<>> \/ \E i \in DOMAIN hs : hs[i].state = "fulfilled"
AllFulfilled(hs) == \A i \in DOMAIN hs : hs[i].state = "fulfilled"

\* resolveConfig: the two map calls invoke every hook in turn; hook number
\* threw (0: none) throws synchronously and ends resolveConfig
InvokeConfigResolved(threw) ==
  /\ bootPhase = "hooksSorted"
  /\ threw \in 0..Len(ConfigResolvedHooks)
  /\ hooks' = IF threw = 0 THEN ConfigResolvedHooks
              ELSE [i \in 1..threw |->
                      IF i = threw
                      THEN [ConfigResolvedHooks[i] EXCEPT !.state = "rejected"]
                      ELSE ConfigResolvedHooks[i]]
  /\ bootPhase' = IF threw = 0 THEN "awaitingHooks" ELSE "failed"
  /\ failure' = IF threw = 0 THEN failure ELSE "createServer"
  /\ UNCHANGED <<configFile, loadResult, errorLog, exitCode>>
  /\ UNCHANGED <<userPlugins, workerPlugins, bands, plugins, sortedPlugins,
                 serverState>>
  /\ UNCHANGED <<wsVars, clientVars, sockVars, srvVars, restVars>>

\* the promise hook number i returned settles; a rejection rejects Promise.all
HookSettle(i, ok) ==
  /\ i \in DOMAIN hooks
  /\ hooks[i].state = "pending"
  /\ hooks' = [hooks EXCEPT ![i].state = IF ok THEN "fulfilled" ELSE "rejected"]
  /\ bootPhase' = IF ~ok /\ bootPhase = "awaitingHooks" THEN "failed"
                  ELSE bootPhase
  /\ failure' = IF ~ok /\ bootPhase = "awaitingHooks" THEN "createServer"
                ELSE failure
  /\ UNCHANGED <<configFile, loadResult, errorLog, exitCode>>
  /\ UNCHANGED <<userPlugins, workerPlugins, bands, plugins, sortedPlugins,
                 serverState>>
  /\ UNCHANGED <<wsVars, clientVars, sockVars, srvVars, restVars>>

\* resolveConfig resumes after the await and returns `resolved`
ResolveConfigReturns ==
  /\ bootPhase = "awaitingHooks"
  /\ AllFulfilled(hooks)
  /\ bootPhase' = "configResolved"
  /\ UNCHANGED <<userPlugins, workerPlugins, bands, plugins, sortedPlugins,
                 hooks, serverState>>
  /\ UNCHANGED startVars
  /\ UNCHANGED <<wsVars, clientVars, sockVars, srvVars, restVars>>

\* createServer(inlineConfig), which the dev command awaits: it resolves the
\* config first and creates the server from the resolved config, or throws
CreateServer(threw) ==
  /\ bootPhase = "configResolved"
  /\ IF threw
     THEN /\ bootPhase' = "failed"
          /\ failure' = "createServer"
          /\ UNCHANGED serverState
     ELSE /\ serverState' = "created"
          /\ bootPhase' = "serverCreated"
          /\ UNCHANGED failure
  /\ UNCHANGED <<userPlugins, workerPlugins, bands, plugins, sortedPlugins,
                 hooks, configFile, loadResult, errorLog, exitCode>>
  /\ UNCHANGED <<wsVars, clientVars, sockVars, srvVars, restVars>>

AwaitListenNoCatch(threw) == "listening"

\* try { ...; await server.listen(); ... } catch (e) { ... }: where control
\* is after the await
AwaitListen(threw) == IF threw THEN "failed" ELSE "listening"

\* dev command: if (!server.httpServer) throw ...; await server.listen()
Listen(hasHttpServer, threw) ==
  /\ bootPhase = "serverCreated"
  /\ IF ~hasHttpServer
     THEN /\ bootPhase' = "failed"
          /\ failure' = "httpServer"
          /\ UNCHANGED serverState
     ELSE /\ bootPhase' = AwaitListen(threw)
          /\ serverState' = IF bootPhase' = "listening" THEN "listening"
                            ELSE serverState
          /\ failure' = IF threw THEN "listen" ELSE failure
  /\ UNCHANGED <<userPlugins, workerPlugins, bands, plugins, sortedPlugins,
                 hooks, configFile, loadResult, errorLog, exitCode>>
  /\ UNCHANGED <<wsVars, clientVars, sockVars, srvVars, restVars>>

\* dev command: the catch block logs the error and calls process.exit(1),
\* which ends the process and with it whatever server it held
ExitOnError ==
  /\ bootPhase = "failed"
  /\ bootPhase' = "exited"
  /\ errorLog' = Append(errorLog, "error when starting dev server")
  /\ exitCode' = 1
  /\ serverState' = "none"
  /\ UNCHANGED <<userPlugins, workerPlugins, bands, plugins, sortedPlugins,
                 hooks, configFile, loadResult, failure>>
  /\ UNCHANGED <<wsVars, clientVars, sockVars, srvVars, restVars>>

(***************************************************************************)
(* Client runtime: src/packages/vite/src/client/client.ts                  *)
(***************************************************************************)
Paths == {"/a.js", "/b.js"}
Events == {"vite:beforePrune", "my:event"}

NoCb == [owner |-> "", gen |-> 0, n |-> 0]
NoMod == [has |-> FALSE, callbacks |-> <<>>]
NoCtx == [has |-> FALSE, map |-> [e \in Events |-> <<>>]]
NoMsg == [seq |-> 0, type |-> "none", arg |-> <<>>, reloaded |-> FALSE,
          closed |-> 0]

\* the deps arrays hot.accept registers for owner p: accept(cb) and
\* acceptExports give [p], accept([p, dep], cb) the array
DepLists(p) == {<<p>>} \cup {<<p, q>> : q \in Paths \ {p}}

\* the updates arrays of the update payloads the client is given
Updates == {[path |-> "/a.js", acceptedPath |-> "/a.js"],
            [path |-> "/a.js", acceptedPath |-> "/b.js"],
            [path |-> "/b.js", acceptedPath |-> "/b.js"]}
UpdateLists == {<<u>> : u \in Updates} \cup
               {<<u, v>> : u, v \in Updates}

\* ------------------------------------------------------ socket set-up
\* __HMR_PORT__: null (0), or the configured port
HmrPorts == {0, 24678}
\* `${__HMR_HOSTNAME__ || importMetaUrl.hostname}:${hmrPort || importMetaUrl.port}${__HMR_BASE__}`
socketHost == "localhost:5173/"
\* __HMR_DIRECT_TARGET__
directSocketHost == "localhost:24678/"

\* the module body calls setupWebSocket once, the fallback once more
MaxSockets == 2
SocketIds == 1..MaxSockets

\* setupWebSocket(protocol, hostAndPath, onCloseWithoutOpen): the socket it
\* returns, with the variables its listeners close over
SetupWebSocket(hostAndPath, onCloseWithoutOpen) ==
  [hostAndPath |-> hostAndPath, onCloseWithoutOpen |-> onCloseWithoutOpen,
   isOpened |-> FALSE, state |-> "connecting", wasClean |-> FALSE,
   greeted |-> FALSE,
   ping |-> "none", retried |-> FALSE, answered |-> FALSE]

\* the module body: `fallback` is defined only without a configured port
SockInit(port, up) ==
  /\ hmrPort = port
  /\ sockets = <<SetupWebSocket(socketHost,
                                IF port = 0 THEN "fallback" ELSE "none")>>
  /\ serverUp = up
  /\ console = {}
  /\ messageBuffer = <<>>
  /\ clientSent = [s \in SocketIds |-> <<>>]
  /\ intervals = 0

\* the stylesheets the page references with <link>, and the elements the
\* served document holds for them (no href contains another stylesheet's path)
CssPaths == {"/style.css", "/other.css"}
LinkTags == <<[id |-> 1, href |-> "/style.css"], [id |-> 2, href |-> "/other.css"]>>

\* the HMR registry of client.ts before any module has run
RegistryInit ==
  /\ dataMap = {}
  /\ hotModulesMap = [p \in Paths |-> NoMod]
  /\ disposeMap = [p \in Paths |-> NoCb]
  /\ pruneMap = [p \in Paths |-> NoCb]
  /\ customListenersMap = [e \in Events |-> <<>>]
  /\ ctxToListenersMap = [p \in Paths |-> NoCtx]
  /\ ctxGen = [p \in Paths |-> 0]
  /\ ctxRegs = [p \in Paths |-> 0]
  /\ hotCalls = 0

\* the registry once /a.js has run: createHotContext('/a.js'), hot.accept(cb),
\* hot.accept('/b.js', cb) and, if it has one, hot.dispose(cb); hotCalls
\* counts the calls made after the page has loaded
RegistryLoaded(withDisposer) ==
  /\ dataMap = {"/a.js"}
  /\ hotModulesMap =
       [p \in Paths |->
          IF p = "/a.js"
          THEN [has |-> TRUE,
                callbacks |-> <<[deps |-> <<"/a.js">>,
                                 fn |-> [owner |-> "/a.js", gen |-> 1, n |-> 1]],
                                [deps |-> <<"/b.js">>,
                                 fn |-> [owner |-> "/a.js", gen |-> 1, n |-> 2]]>>]
          ELSE NoMod]
  /\ disposeMap = [p \in Paths |->
                     IF p = "/a.js" /\ withDisposer
                     THEN [owner |-> "/a.js", gen |-> 1, n |-> 3] ELSE NoCb]
  /\ pruneMap = [p \in Paths |-> NoCb]
  /\ customListenersMap = [e \in Events |-> <<>>]
  /\ ctxToListenersMap =
       [p \in Paths |-> IF p = "/a.js"
                        THEN [has |-> TRUE, map |-> [e \in Events |-> <<>>]]
                        ELSE NoCtx]
  /\ ctxGen = [p \in Paths |-> IF p = "/a.js" THEN 1 ELSE 0]
  /\ ctxRegs = [p \in Paths |->
                  IF p = "/a.js" THEN (IF withDisposer THEN 3 ELSE 2) ELSE 0]
  /\ hotCalls = 0

\* the page, the update queue and the stylesheets when the client starts
PageInit ==
  /\ isFirstUpdate = TRUE
  /\ overlays = 0
  /\ reloadRequested = FALSE
  /\ pending = FALSE
  /\ queued = <<>>
  /\ tasks = <<>>
  /\ batches = <<>>
  /\ log = <<>>
  /\ msgCount = 0
  /\ lastMsg = NoMsg
  /\ lastRun = <<>>
  /\ updateReceived = FALSE
  /\ links = LinkTags
  /\ outdatedLinkTags = {}
  /\ linkListeners = {}
  /\ linkCount = Len(LinkTags)

ClientInit == RegistryInit /\ PageInit

\* the configuration the server injects when HMR needs nothing special
DefaultConfig ==
  /\ enableOverlay = TRUE
  /\ base = "/"
  /\ pagePath = "/"

\* before injectQuery is called
QueryInit(u, q) ==
  /\ url = u
  /\ queryToInject = q
  /\ injected = ""

\* no response written, nothing passed on
NoResponse == [status |-> 0, location |-> "", body |-> <<>>]

\* a request as it enters the middleware stack
HttpInit(b, mode, fs, u, acc, dest) ==
  /\ devBase = b
  /\ middlewareMode = mode
  /\ files = fs
  /\ reqUrl = u
  /\ originalUrl = u
  /\ accept = acc
  /\ secFetchDest = dest
  /\ ran = {}
  /\ res = NoResponse
  /\ passed = <<>>

\* before any request has come in
NoRequestYet == HttpInit("/", FALSE, {}, "", "", "")

\* a page before its transform
HtmlInit(path, nodes) ==
  /\ htmlPath = path
  /\ html = nodes
  /\ transformed = <<>>
  /\ htmlProxyCache = {}

\* the modules the server has observed
Modules == {"/src/a.js", "/src/b.js", "/src/c.js"}
NoModule == ""
NoResult == [code |-> -1]

\* a graph whose modules import imps, accept accs and self-accept when in
\* self, none of them transformed or invalidated yet
GraphInit(imps, accs, self) ==
  /\ importedModules = imps
  /\ importers = [m \in Modules |-> {i \in Modules : m \in imps[i]}]
  /\ acceptedHmrDeps = accs
  /\ isSelfAccepting = [m \in Modules |-> m \in self]
  /\ transformResult = [m \in Modules |-> NoResult]
  /\ lastInvalidationTimestamp = [m \in Modules |-> 0]
  /\ now = 1
  /\ lastInvalidated = NoModule

\* the nodes ensureEntryFromUrl creates: no edges yet
EmptyGraph ==
  GraphInit([m \in Modules |-> {}], [m \in Modules |-> {}], {})

\* a file change that affects the modules of set c, before propagation
HmrInit(c) ==
  /\ changed = c
  /\ affected = c
  /\ hmrQueue = <<>>
  /\ visited = {}
  /\ boundaries = {}
  /\ deadEnd = FALSE
  /\ hmrResult = [type |-> "none", updates |-> {}]

\* the url whose transformRequest calls are followed
TransformUrl == "/src/a.js"
NoPending == [code |-> -1, gen |-> -1]
\* the code a caller holds when the call threw
Thrown == -2
\* the caller's call has not returned
NoAnswer == [gen |-> -1, code |-> -1]

\* no transformRequest call yet
ReqInit ==
  /\ pendingRequest = NoPending
  /\ waiting = {}
  /\ generation = 0
  /\ pipelineRuns = [g \in 0..MaxGens |-> 0]
  /\ errored = FALSE
  /\ handed = [c \in 1..MaxCallers |-> NoAnswer]

\* nothing sent yet by the module graph or the HMR engine
PruneInit == hmrLog = <<>>

\* loadConfigFromBundledFile not called yet
LoaderInit ==
  /\ extLoader = [e \in {".js", ".json", ".node"} |-> 0]
  /\ tmpFiles = {}
  /\ importing = <<>>
  /\ bundleResult = <<>>

\* ------------------------------------------- loadConfigFromBundledFile
\* the config files a call is given: path.extname(fileName) is .ext
BundledFiles == {[name |-> "vite.config", ext |-> ".js"],
                 [name |-> "vite.config", ext |-> ".ts"],
                 [name |-> "data", ext |-> ".json"]}

\* extension in _require.extensions ? extension : '.js'
LoaderExt(fileName) ==
  IF fileName.ext \in DOMAIN extLoader THEN fileName.ext ELSE ".js"

\* `${fileName}.timestamp-${Date.now()}.mjs`
FileNameTmp(fileName, stamp) == [of |-> fileName, stamp |-> stamp]

\* fs.unlinkSync(fileNameTmp), inside try/catch
Unlink(onDisk, f) == onDisk \ {f}

Finished(esm, fileName, outcome) ==
  bundleResult' = Append(bundleResult, [esm |-> esm, fileName |-> fileName,
                                        stamp |-> now, outcome |-> outcome])

\* a call with isESM: up to `await dynamicImport(fileUrl)`; writeFileSync may
\* throw
LoadEsm(fileName, written) ==
  /\ Len(bundleResult) + Len(importing) < MaxLoads
  /\ IF written
     THEN /\ tmpFiles' = tmpFiles \cup {FileNameTmp(fileName, now)}
          /\ importing' = Append(importing, FileNameTmp(fileName, now))
          /\ UNCHANGED bundleResult
     ELSE /\ Finished(TRUE, fileName, "threw")
          /\ UNCHANGED <<tmpFiles, importing>>
  /\ UNCHANGED extLoader
  /\ UNCHANGED <<wsVars, clientVars, coreVars, queryVars, httpVars, htmlVars,
                 graphVars, hmrVars, reqVars, pruneVars, hookVars>>

\* the import of the i-th waiting call settles: the finally block removes
\* its file, or finds it removed already
ImportDone(i, ok) ==
  /\ i \in DOMAIN importing
  /\ importing' = SubSeq(importing, 1, i - 1) \o
                  SubSeq(importing, i + 1, Len(importing))
  /\ tmpFiles' = Unlink(tmpFiles, importing[i])
  /\ bundleResult' = Append(bundleResult,
                            [esm |-> TRUE, fileName |-> importing[i].of,
                             stamp |-> importing[i].stamp,
                             outcome |-> IF ok THEN "returned" ELSE "threw"])
  /\ UNCHANGED extLoader
  /\ UNCHANGED <<wsVars, clientVars, coreVars, queryVars, httpVars, htmlVars,
                 graphVars, hmrVars, reqVars, pruneVars, hookVars>>

\* a call without isESM, which has no await: fs.realpathSync may throw before
\* the loader is replaced, _require.resolve and _require after it
LoadCjs(fileName, outcome) ==
  /\ Len(bundleResult) + Len(importing) < MaxLoads
  /\ LET loaderExt == LoaderExt(fileName)
         defaultLoader == extLoader[loaderExt]
         override == Len(bundleResult) + Len(importing) + 1
     IN extLoader' =
          IF outcome = "realpath threw" THEN extLoader
          ELSE IF outcome = "require threw"
          THEN [extLoader EXCEPT ![loaderExt] = override]
          ELSE [extLoader EXCEPT ![loaderExt] = defaultLoader]
  /\ Finished(FALSE, fileName, IF outcome = "returned" THEN "returned" ELSE "threw")
  /\ UNCHANGED <<tmpFiles, importing>>
  /\ UNCHANGED <<wsVars, clientVars, coreVars, queryVars, httpVars, htmlVars,
                 graphVars, hmrVars, reqVars, pruneVars, hookVars>>

\* createPluginHookUtils: an empty cache, no call yet
HooksInit ==
  /\ sortedPluginsCache = [h \in {"configResolved", "transform"} |->
                            [has |-> FALSE, list |-> <<>>]]
  /\ sortedCalls = <<>>

LateInit == PruneInit /\ LoaderInit /\ HooksInit

\* the parts of the program a specification about another part leaves idle
RestInit ==
  /\ QueryInit("", "")
  /\ NoRequestYet
  /\ HtmlInit("", <<>>)
  /\ EmptyGraph
  /\ HmrInit({})
  /\ ReqInit
  /\ LateInit

Init ==
  /\ WsInit /\ ClientInit /\ DefaultConfig
  /\ SockInit(0, TRUE) /\ SrvInit("shared")
  /\ BootInit(<<>>, <<>>)
  /\ RestInit

\* ---------------------------------------------------------------- hot API
\* the callback a hot API call made now through p's current context registers
NewCb(p) == [owner |-> p, gen |-> ctxGen[p], n |-> ctxRegs[p] + 1]

\* listeners.filter((l) => !staleFns.includes(l))
WithoutStale(listeners, staleFns) ==
  LET Keep(l) == l \notin Range(staleFns) IN SelectSeq(listeners, Keep)

\* createHotContext: what is left of the owner's accept callbacks
ClearedCallbacks(callbacks) == <<>>

CreateHotContext(p) ==
  /\ ~pending
  /\ hotCalls < MaxHotCalls
  /\ hotCalls' = hotCalls + 1
  /\ ctxGen' = [ctxGen EXCEPT ![p] = @ + 1]
  /\ ctxRegs' = [ctxRegs EXCEPT ![p] = 0]
  /\ dataMap' = dataMap \cup {p}
  /\ hotModulesMap' =
       IF hotModulesMap[p].has
       THEN [hotModulesMap EXCEPT ![p].callbacks = ClearedCallbacks(@)]
       ELSE hotModulesMap
  /\ customListenersMap' =
       IF ctxToListenersMap[p].has
       THEN [e \in Events |->
               WithoutStale(customListenersMap[e], ctxToListenersMap[p].map[e])]
       ELSE customListenersMap
  /\ ctxToListenersMap' =
       [ctxToListenersMap EXCEPT ![p] = [has |-> TRUE,
                                         map |-> [e \in Events |-> <<>>]]]
  /\ UNCHANGED <<disposeMap, pruneMap>>
  /\ UNCHANGED <<wsVars, extVars, cssVars, cfgVars, pageVars, queueVars, msgVars>>

\* hot.accept / hot.acceptExports, through acceptDeps
HotAccept(p, deps) ==
  /\ ~pending
  /\ ctxGen[p] > 0
  /\ hotCalls < MaxHotCalls
  /\ hotCalls' = hotCalls + 1
  /\ ctxRegs' = [ctxRegs EXCEPT ![p] = @ + 1]
  /\ hotModulesMap' =
       [hotModulesMap EXCEPT ![p] =
          [has |-> TRUE,
           callbacks |-> Append(@.callbacks, [deps |-> deps, fn |-> NewCb(p)])]]
  /\ UNCHANGED <<dataMap, disposeMap, pruneMap, customListenersMap,
                 ctxToListenersMap, ctxGen>>
  /\ UNCHANGED <<wsVars, extVars, cssVars, cfgVars, pageVars, queueVars, msgVars>>

\* hot.dispose(cb)
HotDispose(p) ==
  /\ ~pending
  /\ ctxGen[p] > 0
  /\ hotCalls < MaxHotCalls
  /\ hotCalls' = hotCalls + 1
  /\ ctxRegs' = [ctxRegs EXCEPT ![p] = @ + 1]
  /\ disposeMap' = [disposeMap EXCEPT ![p] = NewCb(p)]
  /\ UNCHANGED <<dataMap, hotModulesMap, pruneMap, customListenersMap,
                 ctxToListenersMap, ctxGen>>
  /\ UNCHANGED <<wsVars, extVars, cssVars, cfgVars, pageVars, queueVars, msgVars>>

\* hot.prune(cb)
HotPrune(p) ==
  /\ ~pending
  /\ ctxGen[p] > 0
  /\ hotCalls < MaxHotCalls
  /\ hotCalls' = hotCalls + 1
  /\ ctxRegs' = [ctxRegs EXCEPT ![p] = @ + 1]
  /\ pruneMap' = [pruneMap EXCEPT ![p] = NewCb(p)]
  /\ UNCHANGED <<dataMap, hotModulesMap, disposeMap, customListenersMap,
                 ctxToListenersMap, ctxGen>>
  /\ UNCHANGED <<wsVars, extVars, cssVars, cfgVars, pageVars, queueVars, msgVars>>

\* hot.on(event, cb), called on p's current context
HotOn(p, e) ==
  /\ ~pending
  /\ ctxGen[p] > 0
  /\ hotCalls < MaxHotCalls
  /\ hotCalls' = hotCalls + 1
  /\ ctxRegs' = [ctxRegs EXCEPT ![p] = @ + 1]
  /\ customListenersMap' = [customListenersMap EXCEPT ![e] = Append(@, NewCb(p))]
  /\ ctxToListenersMap' =
       [ctxToListenersMap EXCEPT ![p].map[e] = Append(@, NewCb(p))]
  /\ UNCHANGED <<dataMap, hotModulesMap, disposeMap, pruneMap, ctxGen>>
  /\ UNCHANGED <<wsVars, extVars, cssVars, cfgVars, pageVars, queueVars, msgVars>>

\* ------------------------------------------------------- message handling
\* notifyListeners(event, data): the listeners it calls, in order
Notified(e) ==
  IF e \in Events
  THEN [i \in DOMAIN customListenersMap[e] |->
          [kind |-> "listener", cb |-> customListenersMap[e][i]]]
  ELSE <<>>

\* case 'custom'
HandleCustom(e) ==
  /\ ~pending
  /\ msgCount < MaxMsgs
  /\ msgCount' = msgCount + 1
  /\ UNCHANGED updateReceived
  /\ lastMsg' = [seq |-> msgCount + 1, type |-> "custom", arg |-> <<e>>,
                 reloaded |-> FALSE, closed |-> 0]
  /\ lastRun' = Notified(e)
  /\ UNCHANGED <<wsVars, extVars, cssVars, cfgVars, hotVars, pageVars, queueVars>>

\* case 'prune': the callback the forEach runs for one listed path
PrunedCallback(p) == pruneMap[p]

PruneRuns(paths) ==
  LET Ran(p) == PrunedCallback(p) # NoCb
      hit == SelectSeq(paths, Ran)
  IN [i \in DOMAIN hit |-> [kind |-> "prune", cb |-> PrunedCallback(hit[i])]]

PruneLists == {<<p>> : p \in Paths} \cup
              {<<p, q>> : p, q \in Paths}

HandlePrune(paths) ==
  /\ ~pending
  /\ msgCount < MaxMsgs
  /\ msgCount' = msgCount + 1
  /\ UNCHANGED updateReceived
  /\ lastMsg' = [seq |-> msgCount + 1, type |-> "prune", arg |-> paths,
                 reloaded |-> FALSE, closed |-> 0]
  /\ lastRun' = Notified("vite:beforePrune") \o PruneRuns(paths)
  /\ UNCHANGED <<wsVars, extVars, cssVars, cfgVars, hotVars, pageVars, queueVars>>

\* ------------------------------------------------------------ error overlay
\* clearErrorOverlay(): the overlay elements left after every one is closed
ClearErrorOverlayNoop(n) == n
ClearErrorOverlay(n) == 0

\* createErrorOverlay(err): the overlay elements in the document afterwards
CreateErrorOverlay(n) == IF enableOverlay THEN ClearErrorOverlay(n) + 1 ELSE n

\* hasErrorOverlay(): document.querySelectorAll(overlayId).length
HasErrorOverlayNever(n) == FALSE
HasErrorOverlay(n) == n > 0

\* case 'error'
HandleError ==
  /\ ~pending
  /\ msgCount < MaxMsgs
  /\ msgCount' = msgCount + 1
  /\ UNCHANGED updateReceived
  /\ lastMsg' = [seq |-> msgCount + 1, type |-> "error", arg |-> <<>>,
                 reloaded |-> FALSE, closed |-> 0]
  /\ lastRun' = Notified("vite:error")
  /\ overlays' = (IF enableOverlay THEN CreateErrorOverlay(overlays) ELSE overlays)
  /\ UNCHANGED <<isFirstUpdate, reloadRequested>>
  /\ UNCHANGED <<wsVars, extVars, cssVars, cfgVars, hotVars, queueVars>>

\* ------------------------------------------------------------- fetchUpdate
\* every registered callback, whatever its deps
QualifiedAll(callbacks, acceptedPath) == callbacks

\* deps.includes(acceptedPath)
Qualified(callbacks, acceptedPath) ==
  LET Takes(c) == acceptedPath \in Range(c.deps) IN SelectSeq(callbacks, Takes)

\* whether the re-import has been started when fetchUpdate first yields:
\* with a disposer it waits for `await disposer(...)`
ImportAtStartNoAwait(hasDisposer) == "started"
ImportAtStart(hasDisposer) == IF hasDisposer THEN "idle" ELSE "started"

\* fetchUpdate(update) up to its first await, for update number idx of payload msg
StartFetch(u, msg, idx) ==
  LET mod == hotModulesMap[u.path]
      qualifiedCallbacks == Qualified(mod.callbacks, u.acceptedPath)
      isSelfUpdate == u.path = u.acceptedPath
      disposer == disposeMap[u.acceptedPath]
      blank == [msg |-> msg, idx |-> idx, path |-> u.path,
                acceptedPath |-> u.acceptedPath, qualified |-> <<>>,
                disposer |-> NoCb, disposeDone |-> FALSE, import |-> "idle",
                importSeq |-> 0, status |-> "undefined",
                registered |-> mod.callbacks, atImport |-> <<>>]
  IN IF ~mod.has THEN blank
     ELSE IF isSelfUpdate \/ qualifiedCallbacks # <<>>
     THEN [blank EXCEPT !.qualified = qualifiedCallbacks,
                        !.disposer = disposer,
                        !.import = ImportAtStart(disposer # NoCb),
                        !.atImport = IF ImportAtStart(disposer # NoCb) = "started"
                                     THEN mod.callbacks ELSE <<>>,
                        !.status = "pending"]
     ELSE [blank EXCEPT !.status = "fn"]

Resolved(tk) == tk.status \in {"fn", "undefined"}

\* queueUpdate: (await Promise.all(loading)).forEach((fn) => fn && fn()):
\* the tasks whose returned function runs now that task t has settled
\* (t = 0: the flush itself)
CallbacksDueAsSettled(loading, tks, t) ==
  IF t \in Range(loading) /\ Resolved(tks[t]) THEN <<t>> ELSE <<>>
CallbacksDue(loading, tks, t) ==
  IF \A i \in DOMAIN loading : Resolved(tks[loading[i]]) THEN loading ELSE <<>>

\* the function fetchUpdate returned, run for task tk: one entry per accept
\* callback called, with the modules it is passed
RunFn(tk) ==
  [i \in DOMAIN tk.qualified |->
     [msg |-> tk.msg, idx |-> tk.idx, cb |-> tk.qualified[i].fn,
      mods |-> [j \in DOMAIN tk.qualified[i].deps |->
                  IF tk.qualified[i].deps[j] = tk.acceptedPath /\ tk.import = "ok"
                  THEN "module" ELSE "undefined"]]]

RECURSIVE RunAll(_, _)
RunAll(due, tks) ==
  IF due = <<>> THEN <<>>
  ELSE (IF tks[Head(due)].status = "fn" THEN RunFn(tks[Head(due)]) ELSE <<>>)
       \o RunAll(Tail(due), tks)

\* the batch whose loading list holds task t (0 while t is still in `queued`)
BatchOf(t) ==
  IF \E b \in DOMAIN batches : t \in Range(batches[b].loading)
  THEN CHOOSE b \in DOMAIN batches : t \in Range(batches[b].loading)
  ELSE 0

\* a task settled: the queueUpdate call awaiting it resumes if it can
AfterSettle(t, tks) ==
  LET b == BatchOf(t) IN
  IF b = 0 THEN UNCHANGED <<batches, log>>
  ELSE LET due == CallbacksDue(batches[b].loading, tks, t) IN
       /\ log' = log \o RunAll(due, tks)
       /\ batches' = [batches EXCEPT ![b].applied = @ \/ due # <<>>]

\* case 'update'
HandleUpdate(updates) ==
  /\ ~pending
  /\ msgCount < MaxMsgs
  /\ Len(tasks) + Len(updates) <= MaxTasks
  /\ msgCount' = msgCount + 1
  /\ updateReceived' = TRUE
  /\ IF isFirstUpdate /\ HasErrorOverlay(overlays)
     THEN /\ reloadRequested' = TRUE
          /\ lastMsg' = [seq |-> msgCount + 1, type |-> "update", arg |-> updates,
                         reloaded |-> TRUE, closed |-> 0]
          /\ lastRun' = Notified("vite:beforeUpdate")
          /\ UNCHANGED <<isFirstUpdate, overlays, queueVars>>
     ELSE LET started == [i \in DOMAIN updates |->
                            StartFetch(updates[i], msgCount + 1, i)]
              ids == [i \in DOMAIN updates |-> Len(tasks) + i]
              Disposing(tk) == tk.disposer # NoCb
              disposed == SelectSeq(started, Disposing)
          IN /\ overlays' = ClearErrorOverlay(overlays)
             /\ isFirstUpdate' = FALSE
             /\ lastMsg' = [seq |-> msgCount + 1, type |-> "update",
                            arg |-> updates, reloaded |-> FALSE,
                            closed |-> overlays - ClearErrorOverlay(overlays)]
             /\ lastRun' = Notified("vite:beforeUpdate") \o
                           [i \in DOMAIN disposed |->
                              [kind |-> "dispose", cb |-> disposed[i].disposer]]
             /\ tasks' = tasks \o started
             /\ queued' = queued \o ids
             /\ pending' = TRUE
             /\ UNCHANGED <<reloadRequested, batches, log>>
  /\ UNCHANGED <<wsVars, extVars, cssVars, cfgVars, hotVars>>

\* queueUpdate after `await Promise.resolve()`
QueueFlush ==
  /\ pending
  /\ pending' = FALSE
  /\ queued' = <<>>
  /\ LET due == CallbacksDue(queued, tasks, 0) IN
       /\ batches' = Append(batches, [loading |-> queued, applied |-> due # <<>>])
       /\ log' = log \o RunAll(due, tasks)
  /\ UNCHANGED tasks
  /\ UNCHANGED <<wsVars, extVars, cssVars, cfgVars, hotVars, pageVars, msgVars>>

\* the promise of `await disposer(dataMap.get(dep))` settles for task t
DisposeSettle(t, ok) ==
  /\ t \in DOMAIN tasks
  /\ tasks[t].status = "pending"
  /\ tasks[t].disposer # NoCb
  /\ ~tasks[t].disposeDone
  /\ LET tks == IF ok
                THEN [tasks EXCEPT ![t].disposeDone = TRUE, ![t].import = "started",
                                   ![t].atImport =
                                     hotModulesMap[tasks[t].path].callbacks]
                ELSE [tasks EXCEPT ![t].status = "rejected"]
     IN /\ tasks' = tks
        /\ AfterSettle(t, tks)
  /\ UNCHANGED <<pending, queued>>
  /\ UNCHANGED <<wsVars, extVars, cssVars, cfgVars, hotVars, pageVars, msgVars>>

\* how many re-imports have settled so far
ImportsSettled == Cardinality({t \in DOMAIN tasks : tasks[t].importSeq > 0})

\* fetchUpdate once `await import(...)` has settled: a rejection is caught
\* (warnFailedFetch) and the function is returned all the same
AfterImportUncaught(ok) == IF ok THEN "fn" ELSE "rejected"
AfterImport(ok) == "fn"

\* the promise of `await import(...)` settles for task t
ImportSettle(t, ok) ==
  /\ ~pending
  /\ t \in DOMAIN tasks
  /\ tasks[t].status = "pending"
  /\ tasks[t].import = "started"
  /\ LET tks == [tasks EXCEPT ![t].import = IF ok THEN "ok" ELSE "failed",
                              ![t].importSeq = ImportsSettled + 1,
                              ![t].status = AfterImport(ok)]
     IN /\ tasks' = tks
        /\ AfterSettle(t, tks)
  /\ UNCHANGED <<pending, queued>>
  /\ UNCHANGED <<wsVars, extVars, cssVars, cfgVars, hotVars, pageVars, msgVars>>

\* ------------------------------------------------------------- full-reload
Bases == {"/", "/app/"}
\* location.pathname values: a site root, pages, a directory, an escaped name
PagePaths == {"/", "/about.html", "/sub/", "/app/about.html", "/my%20page.html"}
\* payload.path values ("" for a payload that carries no path)
NoPath == ""
ReloadPaths == {NoPath, "/index.html", "/about.html", "/sub/index.html",
                "/my page.html", "*"}

EndsWith(str, suffix) ==
  /\ Len(str) >= Len(suffix)
  /\ SubSeq(str, Len(str) - Len(suffix) + 1, Len(str)) = suffix

\* str.slice(1)
Slice1(str) == SubSeq(str, 2, Len(str))

\* decodeURI, for the one escape the page paths use
RECURSIVE DecodeURI(_)
DecodeURI(str) ==
  IF Len(str) < 3 THEN str
  ELSE IF SubSeq(str, 1, 3) = "%20" THEN " " \o DecodeURI(SubSeq(str, 4, Len(str)))
  ELSE SubSeq(str, 1, 1) \o DecodeURI(Slice1(str))

\* case 'full-reload': whether location.reload() is called
ShouldReloadNoIndexRule(path, page, bs) ==
  IF path # NoPath /\ EndsWith(path, ".html")
  THEN DecodeURI(page) = bs \o Slice1(path)
  ELSE TRUE
ShouldReload(path, page, bs) ==
  IF path # NoPath /\ EndsWith(path, ".html")
  THEN LET decoded == DecodeURI(page)
           payloadPath == bs \o Slice1(path)
       IN \/ decoded = payloadPath
          \/ path = "/index.html"
          \/ (EndsWith(decoded, "/") /\ decoded \o "index.html" = payloadPath)
  ELSE TRUE

\* -------------------------------------------------------------- css-update
\* str.includes(sub)
Includes(str, sub) ==
  \E i \in 1..(Len(str) - Len(sub) + 1) : SubSeq(str, i, i + Len(sub) - 1) = sub

\* cleanUrl(pathname): the 'direct' search parameter is deleted, the rest of
\* pathname + search is kept
CleanUrl(str) ==
  IF EndsWith(str, "?direct") THEN SubSeq(str, 1, Len(str) - 7)
  ELSE IF EndsWith(str, "&direct") THEN SubSeq(str, 1, Len(str) - 7)
  ELSE str

\* the timestamp of the payload handled as message number n, as it is printed
Timestamp(n) == ToString(n)

CssUpdateLists == {<<p>> : p \in CssPaths} \cup
                  {<<p, q>> : p, q \in CssPaths}

\* !outdatedLinkTags.has(e)
NotOutdatedAlways(e, outdated) == TRUE
NotOutdated(e, outdated) == e.id \notin outdated

\* Array.from(document.querySelectorAll('link')).find(...): the position of the
\* first element that qualifies, 0 when there is none
FindLink(doc, outdated, searchUrl) ==
  LET Hit(i) == /\ NotOutdated(doc[i], outdated)
                /\ Includes(CleanUrl(doc[i].href), searchUrl)
  IN IF \E i \in DOMAIN doc : Hit(i)
     THEN CHOOSE i \in DOMAIN doc : Hit(i) /\ \A j \in 1..(i - 1) : ~Hit(j)
     ELSE 0

\* el.after(newLinkTag)
After(doc, i, tag) == SubSeq(doc, 1, i) \o <<tag>> \o SubSeq(doc, i + 1, Len(doc))

\* el.remove()
Remove(doc, id) == LET Stays(e) == e.id # id IN SelectSeq(doc, Stays)

\* the body of the forEach for one css-update, on the document state d
ApplyCssUpdate(d, path, timestamp) ==
  LET searchUrl == CleanUrl(path)
      i == FindLink(d.links, d.outdated, searchUrl)
  IN IF i = 0 THEN d
     ELSE LET newPath == base \o Slice1(searchUrl) \o
                         (IF Includes(searchUrl, "?") THEN "&" ELSE "?") \o
                         "t=" \o timestamp
              newLinkTag == [id |-> d.count + 1, href |-> newPath]
          IN [links |-> After(d.links, i, newLinkTag),
              outdated |-> d.outdated \cup {d.links[i].id},
              listeners |-> d.listeners \cup
                            {[tag |-> newLinkTag.id, el |-> d.links[i].id]},
              count |-> d.count + 1]

RECURSIVE ApplyCssUpdates(_, _, _)
ApplyCssUpdates(d, updates, timestamp) ==
  IF updates = <<>> THEN d
  ELSE ApplyCssUpdates(ApplyCssUpdate(d, Head(updates), timestamp),
                       Tail(updates), timestamp)

\* case 'update', for a payload whose updates are css-updates
HandleCssUpdate(updates) ==
  /\ ~pending
  /\ msgCount < MaxMsgs
  /\ msgCount' = msgCount + 1
  /\ updateReceived' = TRUE
  /\ IF isFirstUpdate /\ HasErrorOverlay(overlays)
     THEN /\ reloadRequested' = TRUE
          /\ lastMsg' = [seq |-> msgCount + 1, type |-> "update", arg |-> updates,
                         reloaded |-> TRUE, closed |-> 0]
          /\ UNCHANGED <<isFirstUpdate, overlays, cssVars>>
     ELSE LET d == ApplyCssUpdates([links |-> links, outdated |-> outdatedLinkTags,
                                    listeners |-> linkListeners,
                                    count |-> linkCount],
                                   updates, Timestamp(msgCount + 1))
          IN /\ overlays' = ClearErrorOverlay(overlays)
             /\ isFirstUpdate' = FALSE
             /\ lastMsg' = [seq |-> msgCount + 1, type |-> "update",
                            arg |-> updates, reloaded |-> FALSE,
                            closed |-> overlays - ClearErrorOverlay(overlays)]
             /\ links' = d.links
             /\ outdatedLinkTags' = d.outdated
             /\ linkListeners' = d.listeners
             /\ linkCount' = d.count
             /\ UNCHANGED reloadRequested
  /\ lastRun' = Notified("vite:beforeUpdate")
  /\ UNCHANGED <<wsVars, extVars, cfgVars, hotVars, queueVars>>

\* the load or error event of a clone fires: its removeOldEl listener runs
LinkSettled(l) ==
  /\ l \in linkListeners
  /\ links' = Remove(links, l.el)
  /\ linkListeners' = linkListeners \ {l}
  /\ UNCHANGED <<outdatedLinkTags, linkCount>>
  /\ UNCHANGED <<wsVars, extVars, cfgVars, hotVars, pageVars, queueVars, msgVars>>

\* -------------------------------------------------------------- injectQuery
\* position of the first occurrence of character ch in str, 0 when absent
FirstIndex(str, ch) ==
  IF \E i \in 1..Len(str) : SubSeq(str, i, i) = ch
  THEN CHOOSE i \in 1..Len(str) :
         /\ SubSeq(str, i, i) = ch
         /\ \A j \in 1..(i - 1) : SubSeq(str, j, j) # ch
  ELSE 0

StartsWith(str, prefix) ==
  Len(str) >= Len(prefix) /\ SubSeq(str, 1, Len(prefix)) = prefix

\* str.replace(/#.*$/, '') and str.replace(/\?.*$/, ''): cut at the first ch
CutAt(str, ch) ==
  IF FirstIndex(str, ch) = 0 THEN str ELSE SubSeq(str, 1, FirstIndex(str, ch) - 1)

\* the URL parser percent-encodes a space of the query or the fragment
RECURSIVE EncodeSpaces(_)
EncodeSpaces(str) ==
  IF str = "" THEN ""
  ELSE (IF SubSeq(str, 1, 1) = " " THEN "%20" ELSE SubSeq(str, 1, 1))
       \o EncodeSpaces(SubSeq(str, 2, Len(str)))

\* new URL(url, 'http://vitejs.dev').hash: from the first '#', '' when bare
UrlHash(str) ==
  LET i == FirstIndex(str, "#")
      raw == IF i = 0 THEN "" ELSE SubSeq(str, i, Len(str))
  IN IF Len(raw) <= 1 THEN "" ELSE EncodeSpaces(raw)

\* new URL(url, 'http://vitejs.dev').search: from the first '?' before the
\* fragment, '' when bare
UrlSearch(str) ==
  LET noHash == CutAt(str, "#")
      i == FirstIndex(noHash, "?")
      raw == IF i = 0 THEN "" ELSE SubSeq(noHash, i, Len(noHash))
  IN IF Len(raw) <= 1 THEN "" ELSE EncodeSpaces(raw)

\* injectQuery(url, queryToInject)
InjectQuery(u, q) ==
  IF ~StartsWith(u, ".") /\ ~StartsWith(u, "/") THEN u
  ELSE LET pathname == CutAt(CutAt(u, "#"), "?")
           search == UrlSearch(u)
           hash == UrlHash(u)
       IN pathname \o "?" \o q \o
          (IF search # "" THEN "&" \o SubSeq(search, 2, Len(search)) ELSE "") \o
          hash

\* urls: absolute path, './' and '../' relative, relative without a leading
\* dot or slash, and with a protocol; each with and without query and hash
UrlPrefixes == {"/", "./", "../", "", "http://usr.vite/"}
UrlSearches == {"", "?v=1", "?a b"}
UrlHashes == {"", "#h", "#1?2/"}
Urls == {p \o "usr/vite/a.js" \o q \o h :
           p \in UrlPrefixes, q \in UrlSearches, h \in UrlHashes}
Queries == {"direct", "import", "t=1"}

CallInjectQuery ==
  /\ injected = ""
  /\ injected' = InjectQuery(url, queryToInject)
  /\ UNCHANGED <<url, queryToInject>>
  /\ UNCHANGED <<wsVars, clientVars, coreVars, httpVars, htmlVars, graphVars, hmrVars, reqVars, lateVars>>

\* ------------------------------------------------- full-reload (handler)
HandleFullReload(path) ==
  /\ ~pending
  /\ msgCount < MaxMsgs
  /\ msgCount' = msgCount + 1
  /\ UNCHANGED updateReceived
  /\ lastMsg' = [seq |-> msgCount + 1, type |-> "full-reload", arg |-> <<path>>,
                 reloaded |-> ShouldReload(path, pagePath, base), closed |-> 0]
  /\ lastRun' = Notified("vite:beforeFullReload")
  /\ reloadRequested' = (reloadRequested \/ ShouldReload(path, pagePath, base))
  /\ UNCHANGED <<isFirstUpdate, overlays>>
  /\ UNCHANGED <<wsVars, extVars, cssVars, cfgVars, hotVars, queueVars>>

\* the reload requested with location.reload() happens: the document and the
\* client's module state are replaced by fresh ones
PageLoad ==
  /\ ~pending
  /\ reloadRequested
  /\ dataMap' = {}
  /\ hotModulesMap' = [p \in Paths |-> NoMod]
  /\ disposeMap' = [p \in Paths |-> NoCb]
  /\ pruneMap' = [p \in Paths |-> NoCb]
  /\ customListenersMap' = [e \in Events |-> <<>>]
  /\ ctxToListenersMap' = [p \in Paths |-> NoCtx]
  /\ ctxGen' = [p \in Paths |-> 0]
  /\ ctxRegs' = [p \in Paths |-> 0]
  /\ isFirstUpdate' = TRUE
  /\ overlays' = 0
  /\ reloadRequested' = FALSE
  /\ pending' = FALSE
  /\ queued' = <<>>
  /\ tasks' = <<>>
  /\ batches' = <<>>
  /\ log' = <<>>
  /\ lastMsg' = NoMsg
  /\ lastRun' = <<>>
  /\ updateReceived' = FALSE
  /\ links' = LinkTags
  /\ outdatedLinkTags' = {}
  /\ linkListeners' = {}
  /\ UNCHANGED <<hotCalls, msgCount, linkCount>>
  /\ UNCHANGED <<wsVars, extVars, cfgVars>>

\* ------------------------------------------------- sockets and reconnection
\* the socket's 'open' event: isOpened = true; the fallback socket also has
\* the listener that announces the direct connection
SocketOpened(s) ==
  /\ s \in DOMAIN sockets
  /\ sockets[s].state = "connecting"
  /\ sockets' = [sockets EXCEPT ![s].state = "open", ![s].isOpened = TRUE]
  /\ console' = IF sockets[s].onCloseWithoutOpen = "log"
                THEN console \cup {"Direct websocket connection fallback."}
                ELSE console
  /\ UNCHANGED <<hmrPort, serverUp, messageBuffer, clientSent, intervals>>
  /\ UNCHANGED <<wsVars, clientVars, srvVars, bootVars, restVars>>

\* close listener: if (!isOpened && onCloseWithoutOpen)
ClosedWithoutOpenAnyway(sock) == sock.onCloseWithoutOpen # "none"
ClosedWithoutOpen(sock) == ~sock.isOpened /\ sock.onCloseWithoutOpen # "none"

\* the socket's 'close' event and its listener, up to the first await
SocketClose(s, wasClean) ==
  /\ s \in DOMAIN sockets
  /\ sockets[s].state \in {"connecting", "open"}
  /\ wasClean => sockets[s].state = "open"
  /\ LET closed == [sockets EXCEPT ![s].state = "closed",
                                   ![s].wasClean = wasClean]
     IN IF wasClean
        THEN /\ sockets' = closed
             /\ UNCHANGED console
        ELSE IF ClosedWithoutOpen(sockets[s])
        THEN IF sockets[s].onCloseWithoutOpen = "fallback"
             THEN /\ sockets' = Append(closed,
                                       SetupWebSocket(directSocketHost, "log"))
                  /\ UNCHANGED console
             ELSE /\ sockets' = closed
                  /\ console' = console \cup {"failed to connect to websocket."}
        ELSE /\ sockets' = [closed EXCEPT ![s].ping = "fetching"]
             /\ console' = console \cup
                           {"server connection lost. polling for restart..."}
  /\ UNCHANGED <<hmrPort, serverUp, messageBuffer, clientSent, intervals>>
  /\ UNCHANGED <<wsVars, clientVars, srvVars, bootVars, restVars>>

\* waitForSuccessfulPing: the fetch resolves when the server answers (with
\* whatever status) and rejects on a networking error
FetchResolvesAlways(up) == TRUE
FetchResolves(up) == up

\* the fetch of waitForSuccessfulPing settles: on success the loop breaks and
\* the close listener calls location.reload(); on failure the timer is set
PingSettled(s) ==
  /\ s \in DOMAIN sockets
  /\ sockets[s].ping = "fetching"
  /\ IF FetchResolves(serverUp)
     THEN /\ sockets' = [sockets EXCEPT ![s].ping = "done",
                                        ![s].answered = serverUp]
          /\ reloadRequested' = TRUE
     ELSE /\ sockets' = [sockets EXCEPT ![s].ping = "waiting",
                                        ![s].retried = TRUE]
          /\ UNCHANGED reloadRequested
  /\ UNCHANGED <<hmrPort, serverUp, console, messageBuffer, clientSent,
                 intervals>>
  /\ UNCHANGED <<isFirstUpdate, overlays>>
  /\ UNCHANGED <<wsVars, srvVars, bootVars, restVars, cfgVars, hotVars, queueVars, msgVars, cssVars>>

\* the setTimeout of waitForSuccessfulPing fires: the loop fetches again
PingRetry(s) ==
  /\ s \in DOMAIN sockets
  /\ sockets[s].ping = "waiting"
  /\ sockets' = [sockets EXCEPT ![s].ping = "fetching"]
  /\ UNCHANGED <<hmrPort, serverUp, console, messageBuffer, clientSent,
                 intervals>>
  /\ UNCHANGED <<wsVars, clientVars, srvVars, bootVars, restVars>>

\* the dev server goes down or comes back
ServerToggle ==
  /\ serverUp' = ~serverUp
  /\ UNCHANGED <<hmrPort, sockets, console, messageBuffer, clientSent,
                 intervals>>
  /\ UNCHANGED <<wsVars, clientVars, srvVars, bootVars, restVars>>

\* the module variable `socket`: the socket made last
CurrentSocket == Len(sockets)

\* a frame: n is the number of the hot API call that made it, calledWhile the
\* socket's state when the call was made
Ping == [type |-> "ping", event |-> "", n |-> 0, calledWhile |-> "open"]

\* sendMessageBuffer() without the readyState test
SendMessageBufferUnchecked(buffer, sent) ==
  [sent |-> [sent EXCEPT ![CurrentSocket] = @ \o buffer], buffer |-> <<>>]

\* sendMessageBuffer(): what the current socket has been sent, and what is
\* left in the buffer
SendMessageBuffer(buffer, sent) ==
  IF sockets[CurrentSocket].state = "open"
  THEN [sent |-> [sent EXCEPT ![CurrentSocket] = @ \o buffer], buffer |-> <<>>]
  ELSE [sent |-> sent, buffer |-> buffer]

\* case 'connected', received on socket s
HandleConnected(s) ==
  /\ ~pending
  /\ s \in DOMAIN sockets
  /\ sockets[s].state = "open"
  /\ ~sockets[s].greeted
  /\ msgCount < MaxMsgs
  /\ msgCount' = msgCount + 1
  /\ UNCHANGED updateReceived
  /\ lastMsg' = [seq |-> msgCount + 1, type |-> "connected", arg |-> <<>>,
                 reloaded |-> FALSE, closed |-> 0]
  /\ lastRun' = <<>>
  /\ sockets' = [sockets EXCEPT ![s].greeted = TRUE]
  /\ LET r == SendMessageBuffer(messageBuffer, clientSent) IN
       /\ clientSent' = r.sent
       /\ messageBuffer' = r.buffer
  /\ intervals' = intervals + 1
  /\ UNCHANGED <<hmrPort, serverUp, console>>
  /\ UNCHANGED <<wsVars, srvVars, bootVars, restVars, cfgVars, hotVars, pageVars, queueVars, cssVars>>

\* a ping timer fires
PingTick ==
  /\ intervals > 0
  /\ Len(clientSent[CurrentSocket]) < MaxFrames
  /\ sockets[CurrentSocket].state = "open"
  /\ clientSent' = [clientSent EXCEPT ![CurrentSocket] = Append(@, Ping)]
  /\ UNCHANGED <<hmrPort, sockets, serverUp, console, messageBuffer, intervals>>
  /\ UNCHANGED <<wsVars, clientVars, srvVars, bootVars, restVars>>

\* hot.send(event, data)
HotSend(p, e) ==
  /\ ~pending
  /\ ctxGen[p] > 0
  /\ hotCalls < MaxHotCalls
  /\ Len(messageBuffer) + Len(clientSent[CurrentSocket]) < MaxFrames
  /\ hotCalls' = hotCalls + 1
  /\ LET msg == [type |-> "custom", event |-> e, n |-> hotCalls + 1,
                 calledWhile |-> sockets[CurrentSocket].state]
         r == SendMessageBuffer(Append(messageBuffer, msg), clientSent)
     IN /\ clientSent' = r.sent
        /\ messageBuffer' = r.buffer
  /\ UNCHANGED <<hmrPort, sockets, serverUp, console, intervals>>
  /\ UNCHANGED <<dataMap, hotModulesMap, disposeMap, pruneMap,
                 customListenersMap, ctxToListenersMap, ctxGen, ctxRegs>>
  /\ UNCHANGED <<wsVars, srvVars, bootVars, restVars, cfgVars, pageVars, queueVars, msgVars, cssVars>>

(***************************************************************************)
(* HTML middlewares: src/unnamed/part_008, part_007, middlewares/indexHtml *)
(***************************************************************************)
\* config.root
Root == "/root"

\* new URL(url, 'http://vitejs.dev').pathname || '/'
Pathname(u) == LET p == CutAt(CutAt(u, "#"), "?") IN IF p = "" THEN "/" ELSE p

\* next(): the request goes on to the following middleware with url u
CallNext(by, u, err) == Append(passed, [by |-> by, url |-> u, err |-> err])

\* the request reaches middleware name: every middleware it went through
\* called next() without an error, and the base middleware, when mounted, is
\* the first of the stack
Reached(name) ==
  /\ reqUrl # ""
  /\ name \notin ran
  /\ Len(passed) = Cardinality(ran)
  /\ \A i \in DOMAIN passed : ~passed[i].err
  /\ (devBase # "/" /\ name # "base") => "base" \in ran

StripBaseKeepsPrefix(u) == u

\* url.replace(devBase, '/') where the url starts with devBase
StripBase(u) == "/" \o SubSeq(u, Len(devBase) + 1, Len(u))

\* viteBaseMiddleware(req, res, next); mounted only when config.base !== '/'
ViteBaseMiddleware ==
  /\ devBase # "/"
  /\ Reached("base")
  /\ ran' = ran \cup {"base"}
  /\ LET path == Pathname(reqUrl) IN
     IF StartsWith(path, devBase)
     THEN /\ reqUrl' = StripBase(reqUrl)
          /\ passed' = CallNext("base", StripBase(reqUrl), FALSE)
          /\ res' = res
     ELSE IF middlewareMode
     THEN /\ passed' = CallNext("base", reqUrl, FALSE)
          /\ UNCHANGED <<reqUrl, res>>
     ELSE IF path = "/" \/ path = "/index.html"
     THEN /\ res' = [status |-> 302,
                     location |-> devBase \o UrlSearch(reqUrl) \o UrlHash(reqUrl),
                     body |-> <<>>]
          /\ UNCHANGED <<reqUrl, passed>>
     ELSE IF Includes(accept, "text/html")
     THEN /\ res' = [status |-> 404, location |-> "",
                     body |-> <<"did you mean to visit", devBase \o Slice1(reqUrl)>>]
          /\ UNCHANGED <<reqUrl, passed>>
     ELSE /\ passed' = CallNext("base", reqUrl, FALSE)
          /\ UNCHANGED <<reqUrl, res>>
  /\ UNCHANGED <<devBase, middlewareMode, files, originalUrl, accept, secFetchDest>>
  /\ UNCHANGED <<wsVars, clientVars, coreVars, queryVars, htmlVars, graphVars, hmrVars, reqVars, lateVars>>

\* position of the last occurrence of character ch in str, 0 when absent
LastIndex(str, ch) ==
  IF \E i \in 1..Len(str) : SubSeq(str, i, i) = ch
  THEN CHOOSE i \in 1..Len(str) :
         /\ SubSeq(str, i, i) = ch
         /\ \A j \in (i + 1)..Len(str) : SubSeq(str, j, j) # ch
  ELSE 0

\* getHtmlFilename(url, server) for a url outside /@fs/
GetHtmlFilename(u) == Root \o "/" \o Slice1(u)

\* the url the history fallback leaves in req.url for a GET request:
\* the '/\/$/' rewrite of the middleware, then the library's dot rule and index
SpaRewrite(u) ==
  LET pathname == CutAt(CutAt(u, "#"), "?")
      rewritten == pathname \o "index.html"
  IN IF Includes(accept, "application/json") /\ StartsWith(accept, "application/json")
     THEN u
     ELSE IF ~(Includes(accept, "text/html") \/ Includes(accept, "*/*"))
     THEN u
     ELSE IF EndsWith(pathname, "/")
     THEN (IF Root \o rewritten \in files THEN rewritten ELSE "/index.html")
     ELSE IF LastIndex(pathname, ".") > LastIndex(pathname, "/")
     THEN u
     ELSE "/index.html"

\* viteSpaFallbackMiddleware(req, res, next)
ViteSpaFallbackMiddleware ==
  /\ Reached("spa")
  /\ ran' = ran \cup {"spa"}
  /\ reqUrl' = SpaRewrite(reqUrl)
  /\ passed' = CallNext("spa", SpaRewrite(reqUrl), FALSE)
  /\ UNCHANGED <<devBase, middlewareMode, files, originalUrl, accept, secFetchDest, res>>
  /\ UNCHANGED <<wsVars, clientVars, coreVars, queryVars, htmlVars, graphVars, hmrVars, reqVars, lateVars>>

\* cleanUrl(url) of the node utils: the url without its query and hash
CleanUrlNode(u) == CutAt(CutAt(u, "#"), "?")

IsHtmlRequestAnyDest(u) == EndsWith(CleanUrlNode(u), ".html")

\* the test that decides whether the HTML rewriter takes the request
IsHtmlRequest(u) == EndsWith(CleanUrlNode(u), ".html") /\ secFetchDest # "script"

\* viteIndexHtmlMiddleware(req, res, next)
ViteIndexHtmlMiddleware ==
  /\ Reached("html")
  /\ ran' = ran \cup {"html"}
  /\ LET u == CleanUrlNode(reqUrl)
         filename == GetHtmlFilename(u)
     IN IF res.status # 0
        THEN /\ passed' = CallNext("html", reqUrl, FALSE)
             /\ res' = res
        ELSE IF IsHtmlRequest(reqUrl) /\ filename \in files
        THEN \E threw \in BOOLEAN :
               IF threw
               THEN /\ passed' = CallNext("html", reqUrl, TRUE)
                    /\ res' = res
               ELSE /\ res' = [status |-> 200, location |-> "",
                               body |-> <<"transformIndexHtml", u, filename, originalUrl>>]
                    /\ passed' = passed
        ELSE /\ passed' = CallNext("html", reqUrl, FALSE)
             /\ res' = res
  /\ UNCHANGED <<devBase, middlewareMode, files, reqUrl, originalUrl, accept, secFetchDest>>
  /\ UNCHANGED <<wsVars, clientVars, coreVars, queryVars, htmlVars, graphVars, hmrVars, reqVars, lateVars>>

DevBases == {"/", "/app/"}
RequestUrls == {"/", "/index.html", "/about", "/dir/", "/dir/index.html?v=1",
                "/missing.html", "/src/main.js", "/?x=1",
                "/app/", "/app/index.html", "/app/src/main.js?v=1", "/app"}
AcceptHeaders == {"text/html,*/*", "*/*", "application/json"}
FetchDests == {"document", "script"}
FileSets == {{}, {"/root/index.html"},
             {"/root/index.html", "/root/dir/index.html", "/root/about.html"}}

\* ------------------------------------------------------------ devHtmlHook
\* an element of the page; src and body are "" when absent
Script(isModule, src, body) ==
  [tag |-> "script", isModule |-> isModule, src |-> src, body |-> body]
Other == [tag |-> "div", isModule |-> FALSE, src |-> "", body |-> ""]

\* the leading null byte of a virtual id, and what wrapId puts in its place
NullByte == "\\0"
WrapId(id) == "/@id/__x00__" \o SubSeq(id, Len(NullByte) + 1, Len(id))

\* devHtmlHook: proxyModulePath
ProxyModulePath ==
  IF ~EndsWith(htmlPath, "/") /\ GetHtmlFilename(htmlPath) \in files
  THEN htmlPath
  ELSE NullByte \o htmlPath \o (IF EndsWith(htmlPath, "/") THEN "index.html" ELSE "")

\* devHtmlHook: proxyModuleUrl
ProxyModuleUrl ==
  IF ~EndsWith(htmlPath, "/") /\ GetHtmlFilename(htmlPath) \in files
  THEN devBase \o Slice1(htmlPath)
  ELSE WrapId(ProxyModulePath)

\* devHtmlHook: proxyCacheUrl
ProxyCacheUrl == CleanUrlNode(ProxyModulePath)

\* addInlineModule: the url of the module that stands for inline script index
ModulePath(index) ==
  ProxyModuleUrl \o "?html-proxy&index=" \o ToString(index) \o ".js"

\* processNodeUrl for a src attribute: a url with a single leading slash is
\* prefixed with the base
ProcessNodeUrl(src) ==
  IF StartsWith(src, "/") /\ ~StartsWith(src, "//") THEN devBase \o Slice1(src)
  ELSE src

IsInlineModuleAnyType(node) == node.src = "" /\ node.body # ""

\* devHtmlHook: `else if (isModule && node.childNodes.length)` under `if (src)`
IsInlineModule(node) == node.src = "" /\ node.isModule /\ node.body # ""

\* traverseHtml with the callback of devHtmlHook, from element i on;
\* index is inlineModuleIndex, acc the output and the cache entries so far
RECURSIVE Traverse(_, _, _, _)
Traverse(nodes, i, index, acc) ==
  IF i > Len(nodes) THEN acc
  ELSE LET node == nodes[i] IN
       IF node.tag = "script" /\ node.src # ""
       THEN Traverse(nodes, i + 1, index,
                     [acc EXCEPT !.out = Append(@, [node EXCEPT !.src = ProcessNodeUrl(@)])])
       ELSE IF node.tag = "script" /\ IsInlineModule(node)
       THEN Traverse(nodes, i + 1, index + 1,
                     [out |-> Append(acc.out, Script(TRUE, ModulePath(index + 1), "")),
                      cache |-> acc.cache \cup
                                {[url |-> ProxyCacheUrl, index |-> index + 1,
                                  code |-> node.body]}])
       ELSE Traverse(nodes, i + 1, index, [acc EXCEPT !.out = Append(@, node)])

\* devHtmlHook(html, { path, filename, server, originalUrl })
DevHtmlHook ==
  /\ htmlPath # ""
  /\ transformed = <<>>
  /\ html # <<>>
  /\ LET r == Traverse(html, 1, -1, [out |-> <<>>, cache |-> {}])
     IN /\ transformed' = r.out
        /\ htmlProxyCache' = r.cache
  /\ UNCHANGED <<htmlPath, html>>
  /\ UNCHANGED <<wsVars, clientVars, coreVars, queryVars, httpVars, graphVars, hmrVars, reqVars, lateVars>>

Elements == {Script(TRUE, "", "import './a'"), Script(TRUE, "", "console.log(1)"),
             Script(FALSE, "", "var x = 1"), Script(TRUE, "/src/main.js", ""),
             Script(TRUE, "", ""), Other}
RECURSIVE Pages(_)
Pages(n) ==
  IF n = 0 THEN {<<>>}
  ELSE Pages(n - 1) \cup
       {Append(pg, e) : pg \in {q \in Pages(n - 1) : Len(q) = n - 1}, e \in Elements}
HtmlPaths == {"/index.html", "/", "/nested/index.html"}

(***************************************************************************)
(* Module graph (server/moduleGraph.ts, described in spec.md 4.B)          *)
(***************************************************************************)
ImportersKeepingOld(mod, prev, next) ==
  [d \in Modules |-> IF d \in next THEN importers[d] \cup {mod} ELSE importers[d]]

\* updateModuleInfo: the importer edges after mod's imports went from prev
\* to next
ImportersAfter(mod, prev, next) ==
  [d \in Modules |->
     IF d \in next THEN importers[d] \cup {mod}
     ELSE IF d \in prev THEN importers[d] \ {mod}
     ELSE importers[d]]

\* updateModuleInfo(node, importedUrls, acceptedUrls, acceptedExports,
\* isSelfAccepting)
UpdateModuleInfo(mod, importedUrls, acceptedUrls, self) ==
  /\ importedUrls \subseteq Modules \ {mod}
  /\ acceptedUrls \subseteq importedUrls
  /\ importers' = ImportersAfter(mod, importedModules[mod], importedUrls)
  /\ importedModules' = [importedModules EXCEPT ![mod] = importedUrls]
  /\ acceptedHmrDeps' = [acceptedHmrDeps EXCEPT ![mod] = acceptedUrls]
  /\ isSelfAccepting' = [isSelfAccepting EXCEPT ![mod] = self]
  /\ lastInvalidated' = NoModule
  /\ UNCHANGED <<transformResult, lastInvalidationTimestamp, now>>
  /\ UNCHANGED <<wsVars, clientVars, coreVars, queryVars, httpVars, htmlVars, hmrVars, reqVars, lateVars>>

\* the module the page's HTML entry loads
Entries == {"/src/a.js"}

\* the modules found from todo along the edges of imported
RECURSIVE ReachableFrom(_, _, _)
ReachableFrom(imported, todo, seen) ==
  IF todo = {} THEN seen
  ELSE LET m == CHOOSE x \in todo : TRUE IN
       ReachableFrom(imported, (todo \cup imported[m]) \ (seen \cup {m}),
                     seen \cup {m})

PrunedImportsAllUnreachable(before, after) ==
  Modules \ ReachableFrom(after, Entries, {})

\* updateModuleInfo -> prunedImports: "any module that is no longer reachable
\* from any entry enters the prune list"
PrunedImports(before, after) ==
  ReachableFrom(before, Entries, {}) \ ReachableFrom(after, Entries, {})

\* m is an entry or is imported, directly or through other modules, by one
ImportedFromEntry(imported, m) ==
  \E k \in 1..Cardinality(Modules) : \E chain \in [1..k -> Modules] :
    /\ chain[1] \in Entries
    /\ chain[k] = m
    /\ \A i \in 1..(k - 1) : chain[i + 1] \in imported[chain[i]]

\* import analysis of mod (4.E step 5): the graph is updated with the imports
\* found, and the modules updateModuleInfo returns as pruned are reported in
\* one prune message; the log also marks which modules ceased to be reachable
ImportAnalysis(mod, importedUrls, acceptedUrls, self) ==
  LET after == [importedModules EXCEPT ![mod] = importedUrls]
      pruned == PrunedImports(importedModules, after)
      ceased == {m \in Modules : /\ ImportedFromEntry(importedModules, m)
                                  /\ ~ImportedFromEntry(after, m)}
      Mark(type, paths) == IF paths = {} THEN <<>>
                           ELSE <<[type |-> type, paths |-> paths]>>
  IN
  /\ Len(hmrLog) + 2 <= MaxLog
  /\ importedUrls \subseteq Modules \ {mod}
  /\ acceptedUrls \subseteq importedUrls
  /\ importers' = ImportersAfter(mod, importedModules[mod], importedUrls)
  /\ importedModules' = after
  /\ acceptedHmrDeps' = [acceptedHmrDeps EXCEPT ![mod] = acceptedUrls]
  /\ isSelfAccepting' = [isSelfAccepting EXCEPT ![mod] = self]
  /\ lastInvalidated' = NoModule
  /\ hmrLog' = hmrLog \o Mark("unreachable", ceased) \o Mark("prune", pruned)
  /\ UNCHANGED <<transformResult, lastInvalidationTimestamp, now>>
  /\ UNCHANGED <<wsVars, clientVars, coreVars, queryVars, httpVars, htmlVars, hmrVars, reqVars, loaderVars, hookVars>>

\* the HMR engine sends the update payload of a file change
SendUpdate ==
  /\ Len(hmrLog) < MaxLog
  /\ hmrLog' = Append(hmrLog, [type |-> "update", paths |-> {}])
  /\ UNCHANGED <<wsVars, clientVars, coreVars, queryVars, httpVars, htmlVars, graphVars, hmrVars, reqVars, loaderVars, hookVars>>

\* "an importer accepts a change if isSelfAccepting OR the changed module is
\* in acceptedHmrDeps"
Accepts(importer, dep) ==
  isSelfAccepting[importer] \/ dep \in acceptedHmrDeps[importer]

WalkRootOnly(todo, seen) == todo

\* invalidateModule(node, seen): the modules the call and its recursive calls
\* invalidate, todo being the calls still to make
RECURSIVE Walk(_, _)
Walk(todo, seen) ==
  IF todo = {} THEN seen
  ELSE LET m == CHOOSE x \in todo : TRUE IN
       IF m \in seen THEN Walk(todo \ {m}, seen)
       ELSE Walk((todo \ {m}) \cup {i \in importers[m] : ~Accepts(i, m)},
                 seen \cup {m})

ResultsKept(set) == transformResult

\* invalidateModule: transformResult = null for the modules of set
ResultsCleared(set) ==
  [x \in Modules |-> IF x \in set THEN NoResult ELSE transformResult[x]]

\* invalidateModule(mod): set the timestamp, clear transformResult and
\* invalidate every importer that does not accept the dependency
InvalidateModule(mod) ==
  LET set == Walk({mod}, {}) IN
  /\ TransformUrl \in set => generation < MaxGens
  /\ lastInvalidationTimestamp' =
       [x \in Modules |-> IF x \in set THEN now ELSE lastInvalidationTimestamp[x]]
  /\ transformResult' = ResultsCleared(set)
  /\ lastInvalidated' = mod
  /\ generation' = IF TransformUrl \in set THEN generation + 1 ELSE generation
  /\ errored' = IF TransformUrl \in set THEN FALSE ELSE errored
  /\ UNCHANGED <<importers, importedModules, acceptedHmrDeps, isSelfAccepting, now>>
  /\ UNCHANGED <<pendingRequest, waiting, pipelineRuns, handed>>
  /\ UNCHANGED <<wsVars, clientVars, coreVars, queryVars, httpVars, htmlVars, hmrVars, lateVars>>

\* time passes between two invalidations
ClockTick ==
  /\ now < MaxTime
  /\ now' = now + 1
  /\ UNCHANGED <<importers, importedModules, acceptedHmrDeps, isSelfAccepting,
                 transformResult, lastInvalidationTimestamp, lastInvalidated>>
  /\ UNCHANGED <<wsVars, clientVars, coreVars, queryVars, httpVars, htmlVars, hmrVars, reqVars, lateVars>>

(***************************************************************************)
(* Transform pipeline (server/transformRequest.ts, spec.md 4.E and 5)      *)
(***************************************************************************)
Callers == 1..MaxCallers

IsPendingNever(p) == FALSE

\* step 3: "if another caller is already producing this URL"
IsPending(p) == p # NoPending

\* transformRequest(url) called by caller c, each caller calling once: a fresh
\* transformResult is returned, the cached error of an errored node is thrown
\* again, a pending pipeline is waited on, else the pipeline is started
TransformRequest(c) ==
  /\ handed[c] = NoAnswer
  /\ \A w \in waiting : w.caller # c
  /\ IF transformResult[TransformUrl] # NoResult
     THEN /\ handed' = [handed EXCEPT ![c] =
                          [gen |-> generation, code |-> transformResult[TransformUrl].code]]
          /\ UNCHANGED <<pendingRequest, waiting, pipelineRuns>>
     ELSE IF errored
     THEN /\ handed' = [handed EXCEPT ![c] = [gen |-> generation, code |-> Thrown]]
          /\ UNCHANGED <<pendingRequest, waiting, pipelineRuns>>
     ELSE IF IsPending(pendingRequest)
     THEN /\ waiting' = waiting \cup {[caller |-> c, gen |-> generation]}
          /\ UNCHANGED <<pendingRequest, pipelineRuns, handed>>
     ELSE /\ pipelineRuns[generation] < MaxRuns
          /\ pendingRequest' = [code |-> generation, gen |-> generation]
          /\ pipelineRuns' = [pipelineRuns EXCEPT ![generation] = @ + 1]
          /\ waiting' = waiting \cup {[caller |-> c, gen |-> generation]}
          /\ UNCHANGED handed
  /\ UNCHANGED <<generation, errored>>
  /\ UNCHANGED graphVars
  /\ UNCHANGED <<wsVars, clientVars, coreVars, queryVars, httpVars, htmlVars, hmrVars, lateVars>>

\* the callers waiting on the promise receive code
Settled(code) ==
  [c \in Callers |->
     IF \E w \in waiting : w.caller = c
     THEN [gen |-> (CHOOSE w \in waiting : w.caller = c).gen, code |-> code]
     ELSE handed[c]]

\* steps 4 to 6 completed: the result is stored in the node, which is fresh
\* again, and every caller waiting on the promise receives it; when a plugin
\* threw, the node is marked errored and the callers receive the error
PipelineSettles(threw) ==
  /\ pendingRequest # NoPending
  /\ IF threw
     THEN /\ errored' = TRUE
          /\ handed' = Settled(Thrown)
          /\ UNCHANGED <<transformResult, lastInvalidationTimestamp>>
     ELSE /\ transformResult' =
               [transformResult EXCEPT ![TransformUrl] = [code |-> pendingRequest.code]]
          /\ lastInvalidationTimestamp' =
               [lastInvalidationTimestamp EXCEPT ![TransformUrl] = 0]
          /\ handed' = Settled(pendingRequest.code)
          /\ UNCHANGED errored
  /\ waiting' = {}
  /\ pendingRequest' = NoPending
  /\ lastInvalidated' = NoModule
  /\ UNCHANGED <<generation, pipelineRuns>>
  /\ UNCHANGED <<importers, importedModules, acceptedHmrDeps, isSelfAccepting, now>>
  /\ UNCHANGED <<wsVars, clientVars, coreVars, queryVars, httpVars, htmlVars, hmrVars, lateVars>>

\* the graphs in which every module imports at most one other module (chains
\* and cycles among them)
ChainGraphs == {imps \in [Modules -> SUBSET Modules] :
                  \A m \in Modules : m \notin imps[m] /\ Cardinality(imps[m]) <= 1}

(***************************************************************************)
(* HMR propagation (server/hmr.ts, described in spec.md 4.F step 4)        *)
(***************************************************************************)
\* the elements of a set, in some fixed order
RECURSIVE SetToSeq(_)
SetToSeq(S) ==
  IF S = {} THEN <<>>
  ELSE LET x == CHOOSE y \in S : TRUE IN <<x>> \o SetToSeq(S \ {x})

\* "Start queue = {changed}. Visited = {}" for the next affected module
StartPropagation(m) ==
  /\ hmrResult.type = "none"
  /\ hmrQueue = <<>>
  /\ m \in affected
  /\ affected' = affected \ {m}
  /\ hmrQueue' = <<m>>
  /\ visited' = {}
  /\ UNCHANGED <<changed, boundaries, deadEnd, hmrResult>>
  /\ UNCHANGED <<wsVars, clientVars, coreVars, queryVars, httpVars, htmlVars, graphVars, reqVars, lateVars>>

AcceptsDepNever(importer, dep) == FALSE

\* "if M is in I.acceptedHmrDeps"
AcceptsDep(importer, dep) == dep \in acceptedHmrDeps[importer]

QueueKeepingHead(q) == q

\* "Pop M": the queue without its head
Popped(q) == Tail(q)

\* one turn of the loop: pop M; a self-accepting M is a boundary; else every
\* importer that accepts M is a boundary and every other importer is queued;
\* a module without importers reached without an accept is a dead end
PropagateStep ==
  /\ hmrQueue # <<>>
  /\ LET M == Head(hmrQueue)
         accepting == {I \in importers[M] : AcceptsDep(I, M)}
     IN IF M \in visited
        THEN /\ hmrQueue' = Popped(hmrQueue)
             /\ UNCHANGED <<visited, boundaries, deadEnd>>
        ELSE /\ visited' = visited \cup {M}
             /\ IF isSelfAccepting[M]
                THEN /\ boundaries' = boundaries \cup
                                      {[boundary |-> M, acceptedVia |-> M]}
                     /\ hmrQueue' = Popped(hmrQueue)
                     /\ UNCHANGED deadEnd
                ELSE /\ boundaries' = boundaries \cup
                                      {[boundary |-> I, acceptedVia |-> M] :
                                         I \in accepting}
                     /\ hmrQueue' = Popped(hmrQueue) \o
                                    SetToSeq(importers[M] \ accepting)
                     /\ deadEnd' = (deadEnd \/ importers[M] = {})
  /\ UNCHANGED <<changed, affected, hmrResult>>
  /\ UNCHANGED <<wsVars, clientVars, coreVars, queryVars, httpVars, htmlVars, graphVars, reqVars, lateVars>>

\* steps 4 and 5: full-reload after a dead end, else one update per boundary
\* with the boundary's url as path and the accepted module's url as
\* acceptedPath
PropagationDone ==
  /\ hmrResult.type = "none"
  /\ changed # {}
  /\ hmrQueue = <<>>
  /\ affected = {}
  /\ hmrResult' =
       IF deadEnd THEN [type |-> "full-reload", updates |-> {}]
       ELSE [type |-> "update",
             updates |-> {[path |-> b.boundary, acceptedPath |-> b.acceptedVia] :
                            b \in boundaries}]
  /\ UNCHANGED <<changed, affected, hmrQueue, visited, boundaries, deadEnd>>
  /\ UNCHANGED <<wsVars, clientVars, coreVars, queryVars, httpVars, htmlVars, graphVars, reqVars, lateVars>>

\* the import relations without a cycle, with the dependencies each module
\* accepts among those it imports
Acyclic(imps) ==
  \E ord \in [Modules -> 1..Cardinality(Modules)] :
    \A m \in Modules : \A d \in imps[m] : ord[d] < ord[m]
ImportGraphs == {imps \in [Modules -> SUBSET Modules] : Acyclic(imps)}
AcceptsOf(imps) == {accs \in [Modules -> SUBSET Modules] :
                      \A m \in Modules : accs[m] \subseteq imps[m]}

InitSocket ==
  /\ WsInit
  /\ ClientInit
  /\ DefaultConfig
  /\ \E port \in HmrPorts : \E up \in BOOLEAN : SockInit(port, up)
  /\ SrvInit("shared")
  /\ BootInit(<<>>, <<>>)
  /\ RestInit

NextSocket ==
  \/ \E p \in Paths : CreateHotContext(p)
  \/ \E p \in Paths : \E e \in Events : HotSend(p, e)
  \/ \E s \in SocketIds : HandleConnected(s)
  \/ PingTick
  \/ \E s \in SocketIds : SocketOpened(s)
  \/ \E s \in SocketIds : \E wasClean \in BOOLEAN : SocketClose(s, wasClean)
  \/ \E s \in SocketIds : PingSettled(s)
  \/ \E s \in SocketIds : PingRetry(s)
  \/ ServerToggle

SpecSocket == InitSocket /\ [][NextSocket]_vars

\* every fetch settles and every timer fires
FairSocket ==
  /\ SpecSocket
  /\ \A s \in SocketIds : WF_vars(PingSettled(s)) /\ WF_vars(PingRetry(s))

InitPage ==
  /\ WsInit
  /\ ClientInit
  /\ SockInit(0, TRUE)
  /\ SrvInit("shared")
  /\ BootInit(<<>>, <<>>)
  /\ RestInit
  /\ enableOverlay \in BOOLEAN
  /\ base \in Bases
  /\ pagePath \in PagePaths

NextPage ==
  \/ HandleError
  \/ \E updates \in UpdateLists : HandleUpdate(updates)
  \/ QueueFlush
  \/ \E path \in ReloadPaths : HandleFullReload(path)
  \/ PageLoad

SpecPage == InitPage /\ [][NextPage]_vars

\* the page at the site root, under either base
InitCss ==
  /\ WsInit
  /\ ClientInit
  /\ SockInit(0, TRUE)
  /\ SrvInit("shared")
  /\ BootInit(<<>>, <<>>)
  /\ RestInit
  /\ enableOverlay = TRUE
  /\ base \in Bases
  /\ pagePath = "/"

NextCss ==
  \/ HandleError
  \/ \E updates \in CssUpdateLists : HandleCssUpdate(updates)
  \/ \E l \in linkListeners : LinkSettled(l)
  \/ PageLoad

SpecCss == InitCss /\ [][NextCss]_vars

NextHmr ==
  \/ \E p \in Paths : CreateHotContext(p)
  \/ \E p \in Paths : \E deps \in DepLists(p) : HotAccept(p, deps)
  \/ \E p \in Paths : HotDispose(p)
  \/ \E updates \in UpdateLists : HandleUpdate(updates)
  \/ QueueFlush
  \/ \E t \in 1..MaxTasks : \E ok \in BOOLEAN : DisposeSettle(t, ok)
  \/ \E t \in 1..MaxTasks : \E ok \in BOOLEAN : ImportSettle(t, ok)

SpecHmr == Init /\ [][NextHmr]_vars

\* self-updates of /a.js on a page whose only module with a hot context is
\* /a.js: each time the module runs again it re-creates its context and may
\* call accept
InitLoaded ==
  /\ WsInit /\ DefaultConfig
  /\ \E withDisposer \in BOOLEAN : RegistryLoaded(withDisposer)
  /\ PageInit
  /\ SockInit(0, TRUE) /\ SrvInit("shared")
  /\ BootInit(<<>>, <<>>)
  /\ RestInit

NextLoaded ==
  \/ CreateHotContext("/a.js")
  \/ HotAccept("/a.js", <<"/a.js">>)
  \/ HandleUpdate(<<[path |-> "/a.js", acceptedPath |-> "/a.js"]>>)
  \/ QueueFlush
  \/ \E t \in 1..MaxTasks : \E ok \in BOOLEAN : DisposeSettle(t, ok)
  \/ \E t \in 1..MaxTasks : \E ok \in BOOLEAN : ImportSettle(t, ok)

SpecLoaded == InitLoaded /\ [][NextLoaded]_vars

\* error and update payloads on the page of SpecLoaded, with the overlay
\* enabled or disabled
InitOverlay ==
  /\ WsInit
  /\ enableOverlay \in BOOLEAN /\ base = "/" /\ pagePath = "/"
  /\ \E withDisposer \in BOOLEAN : RegistryLoaded(withDisposer)
  /\ PageInit
  /\ SockInit(0, TRUE) /\ SrvInit("shared")
  /\ BootInit(<<>>, <<>>)
  /\ RestInit

NextOverlay ==
  \/ HandleError
  \/ \E updates \in UpdateLists : HandleUpdate(updates)
  \/ QueueFlush
  \/ \E t \in 1..MaxTasks : \E ok \in BOOLEAN : DisposeSettle(t, ok)
  \/ \E t \in 1..MaxTasks : \E ok \in BOOLEAN : ImportSettle(t, ok)

SpecOverlay == InitOverlay /\ [][NextOverlay]_vars

NextEvents ==
  \/ \E p \in Paths : CreateHotContext(p)
  \/ \E p \in Paths : HotDispose(p)
  \/ \E p \in Paths : HotPrune(p)
  \/ \E p \in Paths : \E e \in Events : HotOn(p, e)
  \/ \E e \in Events : HandleCustom(e)
  \/ \E paths \in PruneLists : HandlePrune(paths)

SpecEvents == Init /\ [][NextEvents]_vars

NextWs ==
  \/ \E c \in Sockets : Accept(c)
  \/ \E args \in SendArgs : Send(args)
  \/ \E c \in Sockets : BeginClose(c)
  \/ \E c \in Sockets : SocketClosed(c)
  \/ \E c \in Sockets : Deliver(c)

SpecWs == Init /\ [][NextWs]_vars

InitServer ==
  /\ WsInit
  /\ ClientInit
  /\ DefaultConfig
  /\ SockInit(0, TRUE)
  /\ \E mode \in WsModes : SrvInit(mode)
  /\ BootInit(<<>>, <<>>)
  /\ RestInit

NextServer ==
  \/ \E c \in Sockets : \E proto \in Protocols : Upgrade(c, proto)
  \/ \E e \in ServerEvents : \E fn \in Listeners : On(e, fn)
  \/ \E e \in ServerEvents : \E fn \in Listeners : Off(e, fn)
  \/ \E c \in Sockets : \E raw \in RawMessages : ClientMessage(c, raw)
  \/ \E c \in Sockets : SocketClosed(c)

SpecServer == InitServer /\ [][NextServer]_vars

InitPlugins ==
  /\ WsInit /\ ClientInit /\ DefaultConfig
  /\ SockInit(0, TRUE) /\ SrvInit("shared")
  /\ \E n \in 0..MaxPlugins : \E ps \in PluginLists(n, Enforces, HookForms) :
       \E groups \in {Singles(ps), Pairs(ps)} : BootInit(groups, <<>>)
  /\ RestInit

NextPlugins ==
  \/ SortStep
  \/ ResolveStep
  \/ GetSortedPlugins

SpecPlugins == InitPlugins /\ [][NextPlugins]_vars

\* user plugins without enforce or with enforce 'post', the band next to the
\* server-only plugins, and any form of the hook; then calls of
\* getSortedPlugins for either hook
InitHooks ==
  /\ WsInit /\ ClientInit /\ DefaultConfig
  /\ SockInit(0, TRUE) /\ SrvInit("shared")
  /\ \E n \in 0..MaxPlugins :
       \E ps \in PluginLists(n, {"none", "post"}, HookForms \cup {"obj"}) :
         BootInit(Singles(ps), <<>>)
  /\ RestInit

NextHooks ==
  \/ SortStep
  \/ ResolveStep
  \/ \E hookName \in HookNames : GetSortedPluginsCached(hookName)

SpecHooks == InitHooks /\ [][NextHooks]_vars

\* calls of loadConfigFromBundledFile, one after the other or while the
\* import of an earlier call is pending, as time passes
NextBundle ==
  \/ \E fileName \in BundledFiles : \E written \in BOOLEAN : LoadEsm(fileName, written)
  \/ \E i \in 1..MaxLoads : \E ok \in BOOLEAN : ImportDone(i, ok)
  \/ \E fileName \in BundledFiles :
       \E outcome \in {"realpath threw", "require threw", "returned"} :
         LoadCjs(fileName, outcome)
  \/ ClockTick

SpecBundle == Init /\ [][NextBundle]_vars

\* plugin lists whose plugins differ in whether and where their
\* configResolved hook runs; with or without a worker plugin that has one
ConfigFiles == {"false", "vite.config.ts"}
LoadOutcomes == {"loaded", "null", "threw"}

InitBoot ==
  /\ WsInit /\ ClientInit /\ DefaultConfig
  /\ SockInit(0, TRUE) /\ SrvInit("shared")
  /\ \E n \in 0..MaxPlugins :
       \E ps \in PluginLists(n, {"none"}, {"absent", "fn"}) :
         \E worker \in {<<>>, <<<<UserPlugin(1, "none", "fn")>>>>} :
           \E file \in ConfigFiles : BootStart(Singles(ps), worker, file)
  /\ RestInit

NextBoot ==
  \/ \E outcome \in LoadOutcomes : LoadConfigFromFile(outcome)
  \/ SortStep
  \/ ResolveStep
  \/ GetSortedPlugins
  \/ \E threw \in 0..(MaxPlugins + 3) : InvokeConfigResolved(threw)
  \/ \E i \in 1..(MaxPlugins + 3) : \E ok \in BOOLEAN : HookSettle(i, ok)
  \/ ResolveConfigReturns
  \/ \E threw \in BOOLEAN : CreateServer(threw)
  \/ \E hasHttpServer \in BOOLEAN : \E threw \in BOOLEAN :
       Listen(hasHttpServer, threw)
  \/ ExitOnError

SpecBoot == InitBoot /\ [][NextBoot]_vars

\* the catch block of the dev command runs once the awaited promise rejected
FairBoot == SpecBoot /\ WF_vars(ExitOnError)

InitQuery ==
  /\ WsInit /\ ClientInit /\ DefaultConfig
  /\ SockInit(0, TRUE) /\ SrvInit("shared")
  /\ BootInit(<<>>, <<>>)
  /\ \E u \in Urls : \E q \in Queries : QueryInit(u, q)
  /\ NoRequestYet
  /\ HtmlInit("", <<>>)
  /\ EmptyGraph
  /\ HmrInit({})
  /\ ReqInit
  /\ LateInit

NextQuery == CallInjectQuery

SpecQuery == InitQuery /\ [][NextQuery]_vars

InitHttp ==
  /\ WsInit /\ ClientInit /\ DefaultConfig
  /\ SockInit(0, TRUE) /\ SrvInit("shared")
  /\ BootInit(<<>>, <<>>)
  /\ QueryInit("", "")
  /\ HtmlInit("", <<>>)
  /\ EmptyGraph
  /\ HmrInit({})
  /\ ReqInit
  /\ LateInit
  /\ \E b \in DevBases, mode \in BOOLEAN, fs \in FileSets, u \in RequestUrls,
        acc \in AcceptHeaders, dest \in FetchDests :
       HttpInit(b, mode, fs, u, acc, dest)

NextHttp ==
  \/ ViteBaseMiddleware
  \/ ViteSpaFallbackMiddleware
  \/ ViteIndexHtmlMiddleware

SpecHttp == InitHttp /\ [][NextHttp]_vars

InitHtml ==
  /\ WsInit /\ ClientInit /\ DefaultConfig
  /\ SockInit(0, TRUE) /\ SrvInit("shared")
  /\ BootInit(<<>>, <<>>)
  /\ QueryInit("", "")
  /\ \E b \in DevBases : HttpInit(b, FALSE, {"/root/index.html"}, "", "", "")
  /\ \E path \in HtmlPaths : \E nodes \in Pages(MaxNodes) : HtmlInit(path, nodes)
  /\ EmptyGraph
  /\ HmrInit({})
  /\ ReqInit
  /\ LateInit

NextHtml == DevHtmlHook

SpecHtml == InitHtml /\ [][NextHtml]_vars

InitGraph ==
  /\ WsInit /\ ClientInit /\ DefaultConfig
  /\ SockInit(0, TRUE) /\ SrvInit("shared")
  /\ BootInit(<<>>, <<>>)
  /\ RestInit

NextGraph ==
  \E mod \in Modules : \E imps \in SUBSET Modules : \E accs \in SUBSET imps :
    \E self \in BOOLEAN : UpdateModuleInfo(mod, imps, accs, self)

SpecGraph == InitGraph /\ [][NextGraph]_vars

InitPropagate ==
  /\ WsInit /\ ClientInit /\ DefaultConfig
  /\ SockInit(0, TRUE) /\ SrvInit("shared")
  /\ BootInit(<<>>, <<>>)
  /\ QueryInit("", "")
  /\ NoRequestYet
  /\ HtmlInit("", <<>>)
  /\ \E imps \in ImportGraphs : \E accs \in AcceptsOf(imps) :
       \E self \in SUBSET Modules : GraphInit(imps, accs, self)
  /\ \E c \in (SUBSET Modules) \ {{}} : HmrInit(c)
  /\ ReqInit
  /\ LateInit

NextPropagate ==
  \/ \E m \in Modules : StartPropagation(m)
  \/ PropagateStep
  \/ PropagationDone

SpecPropagate == InitPropagate /\ [][NextPropagate]_vars

InitInvalidate ==
  /\ WsInit /\ ClientInit /\ DefaultConfig
  /\ SockInit(0, TRUE) /\ SrvInit("shared")
  /\ BootInit(<<>>, <<>>)
  /\ QueryInit("", "")
  /\ NoRequestYet
  /\ HtmlInit("", <<>>)
  /\ \E imps \in ChainGraphs : \E accs \in AcceptsOf(imps) :
       \E self \in SUBSET {"/src/b.js"} : GraphInit(imps, accs, self)
  /\ HmrInit({})
  /\ ReqInit
  /\ LateInit

NextInvalidate ==
  \/ \E mod \in Modules : InvalidateModule(mod)
  \/ ClockTick

SpecInvalidate == InitInvalidate /\ [][NextInvalidate]_vars

\* the url's module imports nothing, or it imports b.js, which imports c.js
InitTransform ==
  /\ WsInit /\ ClientInit /\ DefaultConfig
  /\ SockInit(0, TRUE) /\ SrvInit("shared")
  /\ BootInit(<<>>, <<>>)
  /\ QueryInit("", "")
  /\ NoRequestYet
  /\ HtmlInit("", <<>>)
  /\ \E imps \in {[m \in Modules |-> {}],
                   [m \in Modules |-> IF m = TransformUrl THEN {"/src/b.js"}
                                      ELSE IF m = "/src/b.js" THEN {"/src/c.js"}
                                      ELSE {}]} :
       GraphInit(imps, [m \in Modules |-> {}], {})
  /\ HmrInit({})
  /\ ReqInit
  /\ LateInit

NextTransform ==
  \/ \E c \in Callers : TransformRequest(c)
  \/ \E threw \in BOOLEAN : PipelineSettles(threw)
  \/ \E mod \in Modules : InvalidateModule(mod)
  \/ ClockTick

SpecTransform == InitTransform /\ [][NextTransform]_vars

\* any import graph to start from, then analyses and file changes
InitPrune ==
  /\ WsInit /\ ClientInit /\ DefaultConfig
  /\ SockInit(0, TRUE) /\ SrvInit("shared")
  /\ BootInit(<<>>, <<>>)
  /\ QueryInit("", "")
  /\ NoRequestYet
  /\ HtmlInit("", <<>>)
  /\ \E imps \in ImportGraphs : GraphInit(imps, [m \in Modules |-> {}], {})
  /\ HmrInit({})
  /\ ReqInit
  /\ LateInit

NextPrune ==
  \/ \E mod \in Modules : \E imps \in SUBSET Modules :
       ImportAnalysis(mod, imps, {}, FALSE)
  \/ SendUpdate

SpecPrune == InitPrune /\ [][NextPrune]_vars

\* the HMR engine runs the propagation to its end once a change came in
FairPropagate == SpecPropagate /\ WF_vars(NextPropagate)

NextKeepAlive ==
  \/ \E c \in Sockets : \E proto \in Protocols : Upgrade(c, proto)
  \/ \E c \in Sockets : \E raw \in RawMessages : ClientMessage(c, raw)
  \/ Tick
  \/ \E c \in Sockets : SocketClosed(c)

SpecKeepAlive == InitServer /\ [][NextKeepAlive]_vars

(***************************************************************************)
(* Claims about the message channel (SpecWs)                               *)
(***************************************************************************)
ErrorPayload(id) == [type |-> "error", id |-> id]

\* C1: on every connection the server has accepted, the first frame the
\* server sent is {type:"connected"}; no broadcast payload and no buffered
\* error precedes it.
C1_FirstMessageIsConnected ==
  \A c \in Sockets :
    readyState[c] # CONNECTING =>
      /\ Stream(c) # <<>>
      /\ Head(Stream(c)) = Connected
      /\ \A i \in 2..Len(Stream(c)) : Stream(c)[i] # Connected

\* a connection that was greeted and then handed the buffered error
C1_Witness ==
  \E c \in Sockets :
    /\ Len(Stream(c)) >= 2
    /\ Stream(c)[1] = Connected
    /\ Stream(c)[2].type = "error"

Superseded(e) ==
  \E f \in noClientErrors : f.conn = e.conn /\ f.id > e.id

C3_OrderPreserved ==
  \A c \in Sockets :
    \A i, j \in DOMAIN received[c] :
      i < j => received[c][i].id < received[c][j].id

\* a client that has received two update payloads
C3_Witness ==
  \E c \in Sockets :
    \E i, j \in DOMAIN received[c] :
      /\ i < j
      /\ received[c][i].type = "update"
      /\ received[c][j].type = "update"

(***************************************************************************)
(* Claims about the client's update queue (SpecHmr)                        *)
(***************************************************************************)
\* the fetchUpdate call an invoked accept callback belongs to
TaskOf(entry) ==
  CHOOSE t \in DOMAIN tasks :
    tasks[t].msg = entry.msg /\ tasks[t].idx = entry.idx

\* C4: the accept callbacks of one update payload are invoked in the order
\* the payload lists their updates.
C4_PayloadOrderKept ==
  \A i, j \in DOMAIN log :
    (i < j /\ log[i].msg = log[j].msg) => log[i].idx <= log[j].idx

\* two updates of one payload applied in list order although the re-import of
\* the second settled first
C4_Witness ==
  \E i, j \in DOMAIN log :
    /\ i < j
    /\ log[i].msg = log[j].msg
    /\ log[i].idx < log[j].idx
    /\ tasks[TaskOf(log[i])].importSeq > tasks[TaskOf(log[j])].importSeq
    /\ tasks[TaskOf(log[j])].importSeq > 0

\* C5: payloads are applied in arrival order: no accept callback of a
\* later-arrived payload runs before an accept callback of an earlier-arrived
\* payload.
C5_ArrivalOrderKept ==
  \A i, j \in DOMAIN log : i < j => log[i].msg <= log[j].msg

\* C6: a re-import starts only after the dispose callback called for the
\* update has completed, and an accept callback runs only after the
\* re-import of its update has settled.
C6_DisposeThenImportThenAccept ==
  /\ \A t \in DOMAIN tasks :
       (tasks[t].import # "idle" /\ tasks[t].disposer # NoCb)
         => tasks[t].disposeDone
  /\ \A i \in DOMAIN log : tasks[TaskOf(log[i])].import \in {"ok", "failed"}

\* an accept callback has run for an update whose disposer completed and
\* whose re-import succeeded
C6_Witness ==
  \E i \in DOMAIN log :
    /\ tasks[TaskOf(log[i])].disposer # NoCb
    /\ tasks[TaskOf(log[i])].disposeDone
    /\ tasks[TaskOf(log[i])].import = "ok"

(***************************************************************************)
(* Claims about registrations, prune and custom events (SpecEvents)        *)
(***************************************************************************)
\* a callback registered through a context of its owner that has since been
\* replaced by a newer one
Stale(cb) == cb # NoCb /\ cb.gen < ctxGen[cb.owner]

\* C7: no payload invokes a callback registered through an earlier
\* context of a module whose context has been re-created: neither a listener,
\* a dispose or a prune callback the handler calls, nor an accept callback a
\* fetchUpdate call of the payload selects.
C7_NoStaleCallbackInvoked ==
  [][lastMsg'.seq # lastMsg.seq =>
       /\ \A i \in DOMAIN lastRun' : ~Stale(lastRun'[i].cb)
       /\ \A t \in DOMAIN tasks' :
            t \notin DOMAIN tasks =>
              \A k \in DOMAIN tasks'[t].qualified :
                ~Stale(tasks'[t].qualified[k].fn)]_vars

\* C9: handling a prune payload runs, for every listed path, the
\* dispose callback registered for that path.
C9_PruneRunsDisposeCallbacks ==
  [][(lastMsg'.seq # lastMsg.seq /\ lastMsg'.type = "prune") =>
       \A k \in DOMAIN lastMsg'.arg :
         disposeMap[lastMsg'.arg[k]] # NoCb =>
           \E i \in DOMAIN lastRun' :
             lastRun'[i].cb = disposeMap[lastMsg'.arg[k]]]_vars

(***************************************************************************)
(* Claims about full reload and the error overlay (SpecPage)               *)
(***************************************************************************)
\* the browser is on the page the path names: the page itself, or the
\* directory whose index.html it is
OnThatPage(path) ==
  LET decoded == DecodeURI(pagePath)
      target == base \o Slice1(path)
  IN \/ decoded = target
     \/ (EndsWith(decoded, "/") /\ decoded \o "index.html" = target)

C10_NoOverlayAfterUpdate ==
  lastMsg.type = "update" => overlays = 0

\* C10 amended: once an update payload has been handled no error overlay is
\* displayed, unless no update had been applied on the page yet and an
\* overlay was displayed: then the client requests a page reload instead and
\* the overlay stays until the page unloads.
C10_OverlayClearedOrReload ==
  lastMsg.type = "update" =>
    IF lastMsg.reloaded
    THEN isFirstUpdate /\ overlays > 0 /\ reloadRequested
    ELSE overlays = 0 /\ ~isFirstUpdate

\* an update payload closed the overlay an error payload had shown
C10_Witness ==
  /\ lastMsg.type = "update"
  /\ ~lastMsg.reloaded
  /\ lastMsg.closed > 0
  /\ overlays = 0

(***************************************************************************)
(* Claims about css-updates (SpecCss)                                      *)
(***************************************************************************)
\* the <link> elements in the document that reference stylesheet p
LinksOf(p) == {i \in DOMAIN links : Includes(CleanUrl(links[i].href), p)}

\* C11: whenever no clone's load (or error) event is still pending, the
\* document holds exactly one <link> element for every stylesheet, whatever
\* css-updates were applied and in whatever order the load events fired.
C11_OneLinkRemains ==
  linkListeners = {} => \A p \in CssPaths : Cardinality(LinksOf(p)) = 1

\* /style.css was updated at least twice, every load has fired, and the
\* element left is the clone made last
C11_Witness ==
  /\ linkListeners = {}
  /\ Cardinality({id \in outdatedLinkTags :
                    \A i \in DOMAIN links : links[i].id # id}) >= 2
  /\ 1 \in outdatedLinkTags
  /\ 2 \notin outdatedLinkTags
  /\ \E i \in LinksOf("/style.css") : links[i].id = linkCount

(***************************************************************************)
(* Claims about the client's sockets (SpecSocket, FairSocket)              *)
(***************************************************************************)
\* the primary socket has closed and never opened
PrimaryFailed == sockets[1].state = "closed" /\ ~sockets[1].isOpened

\* a connection to the direct target has been attempted
FallbackAttempted ==
  \E s \in DOMAIN sockets : s > 1 /\ sockets[s].hostAndPath = directSocketHost

\* the fallback is attempted at most once and never after the primary opened
FallbackOnceAndOnlyUnopened ==
  /\ Len(sockets) <= 2
  /\ sockets[1].isOpened => Len(sockets) = 1

\* C12: whenever the primary socket has closed without ever having opened,
\* a connection to the direct target has been attempted; the fallback is
\* attempted at most once and never after the primary socket has opened.
C12_FallbackWheneverUnopened ==
  /\ PrimaryFailed => FallbackAttempted
  /\ FallbackOnceAndOnlyUnopened

\* C12, amended: the direct target is attempted exactly when the primary
\* socket closed without opening and no HMR port is configured; with a
\* configured port the close listener polls the server instead.  At most one
\* fallback is attempted and none after the primary socket has opened.
C12_FallbackOnlyWithoutPort ==
  /\ PrimaryFailed /\ hmrPort = 0 => FallbackAttempted
  /\ PrimaryFailed /\ hmrPort # 0 =>
       ~FallbackAttempted /\ sockets[1].ping # "none"
  /\ FallbackAttempted => PrimaryFailed /\ hmrPort = 0
  /\ FallbackOnceAndOnlyUnopened

\* the primary socket failed, the fallback was attempted and failed as well:
\* no further socket is made
C12_Witness ==
  /\ PrimaryFailed
  /\ Len(sockets) = 2
  /\ sockets[2].state = "closed"
  /\ ~sockets[2].isOpened
  /\ "failed to connect to websocket." \in console

\* an established connection was lost: the socket had opened and its close
\* was not clean
Lost(s) ==
  /\ s \in DOMAIN sockets
  /\ sockets[s].isOpened
  /\ sockets[s].state = "closed"
  /\ ~sockets[s].wasClean

\* the close listener of some socket has seen its ping answered
PingAnswered == \E s \in DOMAIN sockets : sockets[s].ping = "done" /\ sockets[s].answered

\* C13: after an established connection is lost the client polls the server;
\* the page is reloaded only after a ping was answered, and if the server
\* comes back for good the reload eventually happens.
C13_PollThenReload ==
  /\ [](\A s \in SocketIds : Lost(s) => sockets[s].ping # "none")
  /\ [](reloadRequested => PingAnswered)
  /\ (<>[]serverUp) => [](\A s \in SocketIds : Lost(s) => <>reloadRequested)

\* a lost connection whose first ping failed and whose later ping was
\* answered, so that the page is reloaded
C13_Witness ==
  \E s \in DOMAIN sockets :
    /\ Lost(s)
    /\ sockets[s].retried
    /\ sockets[s].ping = "done"
    /\ reloadRequested

(***************************************************************************)
(* Claims about upgrades and client messages (SpecServer)                  *)
(***************************************************************************)
\* C14: a connection from which no ping arrived within the keep-alive
\* interval is closed by the server: no connection is still open once
\* MaxTicks whole intervals have elapsed since its last ping.
C14_SilentConnectionClosed ==
  \A c \in Sockets : readyState[c] = OPEN => silence[c] < MaxTicks

\* a client message that is not valid JSON, or not a custom event with an
\* event name
Malformed(raw) ==
  \/ ~raw.json
  \/ Parse(raw).kind # "object"
  \/ Parse(raw).type # "custom"
  \/ Parse(raw).event = ""

\* C15: the step that handles a malformed client message invokes no
\* listener, sends nothing, and leaves the listeners, the buffered error and
\* every connection as they were.
C15_MalformedIgnored ==
  [][lastIn'.seq # lastIn.seq /\ Malformed(lastIn'.raw) =>
       UNCHANGED <<invoked, customListeners, clientsMap, wsVars>>]_vars

\* a malformed message that names a listened event was handled while a
\* listener was registered for that event
C15_Witness ==
  /\ lastIn.seq > 0
  /\ lastIn.raw.value = Obj("ping", "my:event")
  /\ customListeners["my:event"].fns # <<>>
  /\ invoked = <<>>

\* C16: repeated malformed messages from one client make the server close
\* that client's connection: no connection is still open after the server
\* received MaxIn messages that are not JSON from it.
C16_RepeatedMalformedCloses ==
  \A c \in Sockets : badCount[c] >= MaxIn => readyState[c] # OPEN

\* C17: every connection that was sent `connected` presented the
\* subprotocol token vite-hmr in its upgrade request, whether the server
\* shares the HTTP server or listens on its own port.
C17_ConnectedOnlyWithToken ==
  \A c \in Sockets : Connected \in Range(Stream(c)) => presented[c] = HMR_HEADER

(***************************************************************************)
(* Claims about plugin ordering (SpecPlugins)                              *)
(***************************************************************************)
EnforceRank(p) == IF p.enforce = "pre" THEN 1 ELSE IF p.enforce = "post" THEN 3 ELSE 2
HookRank(p) == IF p.hook = "pre" THEN 1 ELSE IF p.hook = "post" THEN 3 ELSE 2

\* the user plugins consulted for the hook, in the order they are consulted
Consulted == LET User(p) == p.name = "user" IN SelectSeq(sortedPlugins, User)

\* C18: in the list of plugins consulted for a hook, every user plugin with
\* enforce 'pre' comes before every one without enforce, and those before
\* every one with enforce 'post'; plugins of one band keep their declaration
\* order.
C18_EnforceBandsInEveryHookList ==
  bootPhase = "hooksSorted" =>
    \A i, j \in DOMAIN Consulted :
      i < j =>
        \/ EnforceRank(Consulted[i]) < EnforceRank(Consulted[j])
        \/ /\ EnforceRank(Consulted[i]) = EnforceRank(Consulted[j])
           /\ Consulted[i].id < Consulted[j].id

\* C18, amended: the list consulted for a hook holds exactly the plugins that
\* define the hook, grouped by the hook's own order ('pre' hooks, hooks
\* without order, 'post' hooks); inside each group the enforce bands follow
\* one another (pre, none, post) and plugins of one band keep their
\* declaration order.
C18_HookOrderThenEnforceBands ==
  bootPhase = "hooksSorted" =>
    /\ \A i, j \in DOMAIN Consulted :
         i < j =>
           \/ HookRank(Consulted[i]) < HookRank(Consulted[j])
           \/ /\ HookRank(Consulted[i]) = HookRank(Consulted[j])
              /\ \/ EnforceRank(Consulted[i]) < EnforceRank(Consulted[j])
                 \/ /\ EnforceRank(Consulted[i]) = EnforceRank(Consulted[j])
                    /\ Consulted[i].id < Consulted[j].id
    /\ Range(Consulted) = {p \in Range(Flat(userPlugins)) : p.hook # "absent"}
    /\ Len(Consulted) = Cardinality(Range(Consulted))

\* three plugins declared post, none, pre, all with a plain hook, one of
\* them inside an array: consulted in the order pre, none, post
C18_Witness ==
  /\ bootPhase = "hooksSorted"
  /\ Len(userPlugins) = 2
  /\ Flat(userPlugins) = <<UserPlugin(1, "post", "fn"), UserPlugin(2, "none", "fn"),
                           UserPlugin(3, "pre", "fn")>>
  /\ Consulted = <<UserPlugin(3, "pre", "fn"), UserPlugin(2, "none", "fn"),
                   UserPlugin(1, "post", "fn")>>

(***************************************************************************)
(* Claims about the boot sequence (SpecBoot)                               *)
(***************************************************************************)
\* the configResolved hook of plugin p was invoked with config arg and the
\* promise it returned is fulfilled
Completed(p, arg) ==
  \E i \in DOMAIN hooks :
    /\ hooks[i].plugin = p
    /\ hooks[i].arg = arg
    /\ hooks[i].state = "fulfilled"

\* C19: once the dev server is created (and so before it listens), the
\* configResolved hook of every plugin of resolved.plugins has been invoked
\* with the resolved config and has completed, and so has every hook of the
\* worker plugins.
C19_HooksDoneBeforeServer ==
  serverState # "none" =>
    /\ \A p \in Range(plugins) : p.hook # "absent" => Completed(p, "resolved")
    /\ \A i \in DOMAIN hooks : hooks[i].state = "fulfilled"
    /\ Len(hooks) = Len(ConfigResolvedHooks)

\* the server listens after the hooks of two user plugins, of the built-in
\* plugins and of a worker plugin completed
C19_Witness ==
  /\ serverState = "listening"
  /\ Cardinality({i \in DOMAIN hooks : hooks[i].plugin.name = "user"
                                        /\ hooks[i].arg = "resolved"}) >= 2
  /\ \E i \in DOMAIN hooks : hooks[i].arg = "workerResolved"
                              /\ hooks[i].plugin.name = "user"

(***************************************************************************)
(* Claims about injectQuery (SpecQuery)                                    *)
(***************************************************************************)
\* C20: for every url, injectQuery returns the url's path, then ?q, then the
\* url's search parameters appended with &, then the url's hash.
C20_QueryAfterPathBeforeSearch ==
  injected # "" =>
    injected = CutAt(CutAt(url, "#"), "?") \o "?" \o queryToInject \o
               (IF UrlSearch(url) # ""
                THEN "&" \o SubSeq(UrlSearch(url), 2, Len(UrlSearch(url)))
                ELSE "") \o
               UrlHash(url)

(***************************************************************************)
(* Claims about the HTML middlewares (SpecHttp)                            *)
(***************************************************************************)
\* the request as the base middleware passed it on, if it did
PassedOnByBase(u) ==
  /\ passed # <<>>
  /\ passed[1] = [by |-> "base", url |-> u, err |-> FALSE]
  /\ res.status \notin {302, 404}

\* C21 (as stated): with a base other than '/', a request under the base is
\* passed on with the base stripped, and a request that omits the base is
\* answered with a redirect to the base-prefixed url.
C21_StrippedOrRedirected ==
  "base" \in ran =>
    IF StartsWith(Pathname(originalUrl), devBase)
    THEN PassedOnByBase("/" \o SubSeq(originalUrl, Len(devBase) + 1, Len(originalUrl)))
    ELSE res.status = 302 /\ res.location = devBase \o Slice1(originalUrl)

\* C21 (amended): with a base other than '/', a request under the base is
\* passed on with the base stripped; outside middleware mode a request for '/'
\* or '/index.html' is redirected to the base followed by its search string,
\* and any other request that omits the base gets a 404 that names the
\* base-prefixed url if it accepts text/html; every other request that omits
\* the base is passed on unchanged.
C21_StrippedOrRootRedirected ==
  "base" \in ran =>
    LET path == Pathname(originalUrl) IN
    IF StartsWith(path, devBase)
    THEN PassedOnByBase("/" \o SubSeq(originalUrl, Len(devBase) + 1, Len(originalUrl)))
    ELSE IF ~middlewareMode /\ path \in {"/", "/index.html"}
    THEN /\ res.status = 302
         /\ res.location = devBase \o UrlSearch(originalUrl) \o UrlHash(originalUrl)
         /\ passed = <<>>
    ELSE IF ~middlewareMode /\ Includes(accept, "text/html")
    THEN /\ res.status = 404
         /\ res.body[2] = devBase \o Slice1(originalUrl)
         /\ passed = <<>>
    ELSE PassedOnByBase(originalUrl)

C21_Witness ==
  /\ "base" \in ran
  /\ originalUrl = "/?x=1"
  /\ res.status = 302
  /\ res.location = "/app/?x=1"

\* the url the HTML rewriter found in req.url
HtmlSawUrl ==
  IF \E i \in DOMAIN passed : passed[i].by = "html"
  THEN (CHOOSE e \in Range(passed) : e.by = "html").url
  ELSE reqUrl

\* the HTML rewriter answered with the transformed html of file f, or passed
\* on the error of the transform
HtmlAnswered(f) ==
  \/ res.status = 200 /\ res.body[1] = "transformIndexHtml" /\ res.body[3] = f
  \/ \E e \in Range(passed) : e.by = "html" /\ e.err

\* the HTML rewriter passed the request on as it found it
HtmlPassedOn ==
  /\ res.status = 0
  /\ \E e \in Range(passed) : e.by = "html" /\ ~e.err

\* C22 (as stated): the HTML rewriter answers every text/html request whose
\* url ends in .html or in / with the transformed html of the corresponding
\* file; any other request, and any request whose file does not exist, is
\* passed to the next middleware.
C22_HtmlOrSlashRewritten ==
  "html" \in ran =>
    LET c == CutAt(CutAt(HtmlSawUrl, "#"), "?")
        wanted == /\ Includes(accept, "text/html")
                  /\ EndsWith(c, ".html") \/ EndsWith(c, "/")
        file == Root \o (IF EndsWith(c, "/") THEN c \o "index.html" ELSE c)
    IN IF wanted /\ file \in files THEN HtmlAnswered(file) ELSE HtmlPassedOn

\* C22 (amended): the HTML rewriter answers every request whose url without
\* query ends in .html and whose sec-fetch-dest is not 'script' with the
\* transformed html of the corresponding file; any other request, and any
\* request whose file does not exist, is passed to the next middleware.
C22_DotHtmlRewritten ==
  "html" \in ran =>
    LET c == CutAt(CutAt(HtmlSawUrl, "#"), "?")
        wanted == EndsWith(c, ".html") /\ secFetchDest # "script"
        file == Root \o c
    IN IF wanted /\ file \in files THEN HtmlAnswered(file) ELSE HtmlPassedOn

C22_Witness ==
  /\ "html" \in ran
  /\ originalUrl = "/dir/index.html?v=1"
  /\ res.status = 200
  /\ res.body[3] = "/root/dir/index.html"

(***************************************************************************)
(* Claims about a failed start (FairBoot)                                  *)
(***************************************************************************)
\* C23: if loading the config file, creating the dev server or listen()
\* throws, the dev command logs the error and exits the process with code 1,
\* and the server is not listening after the failure.
C23_FailedStartExits ==
  /\ [](failure # "none" =>
          bootPhase \in {"failed", "exited"} /\ serverState # "listening")
  /\ [](bootPhase = "exited" =>
          /\ failure # "none"
          /\ exitCode = 1
          /\ errorLog # <<>>
          /\ errorLog[Len(errorLog)] = "error when starting dev server")
  /\ [](exitCode # -1 => bootPhase = "exited")
  /\ (failure # "none") ~> (exitCode = 1)

C23_Witness ==
  /\ failure = "listen"
  /\ bootPhase = "exited"
  /\ exitCode = 1
  /\ serverState = "none"

(***************************************************************************)
(* Claims about the dev html transform (SpecHtml)                          *)
(***************************************************************************)
\* the inline module scripts among the first i elements of the page
InlineModulesUpTo(i) ==
  {j \in 1..i : /\ html[j].tag = "script"
                /\ html[j].src = ""
                /\ html[j].isModule
                /\ html[j].body # ""}

\* C24: after the transform every inline module script is replaced by a script
\* with no body and src <proxy>?html-proxy&index=N(.js), N counting the inline
\* module scripts from 0 in document order, and the proxy cache holds under N
\* exactly that script's code.
C24_InlineModulesProxied ==
  transformed # <<>> =>
    /\ Len(transformed) = Len(html)
    /\ \A i \in InlineModulesUpTo(Len(html)) :
         LET n == Cardinality(InlineModulesUpTo(i)) - 1
             proxy == IF htmlPath = "/" THEN "/@id/__x00__/index.html"
                      ELSE IF htmlPath = "/index.html" THEN devBase \o "index.html"
                      ELSE "/@id/__x00__" \o htmlPath
         IN /\ transformed[i].tag = "script"
            /\ transformed[i].isModule
            /\ transformed[i].body = ""
            /\ transformed[i].src = proxy \o "?html-proxy&index=" \o ToString(n) \o ".js"
            /\ \A e \in htmlProxyCache : e.index = n => e.code = html[i].body
            /\ \E e \in htmlProxyCache : e.index = n
    /\ Cardinality(htmlProxyCache) = Cardinality(InlineModulesUpTo(Len(html)))
    /\ \A i \in DOMAIN transformed :
         transformed[i].tag = "script" /\ transformed[i].isModule
           => transformed[i].src = "" \/ transformed[i].body = ""

C24_Witness ==
  /\ transformed # <<>>
  /\ Cardinality(htmlProxyCache) = 2
  /\ \E i \in DOMAIN html : html[i].tag = "div"
  /\ transformed[Len(transformed)].src = "/app/index.html?html-proxy&index=1.js"

(***************************************************************************)
(* Claims about the module graph (SpecGraph, SpecInvalidate)               *)
(***************************************************************************)
\* C25: after every updateModuleInfo, B is in A.importedModules exactly when
\* A is in B.importers, for all modules A and B.
C25_ImportersMutual ==
  \A A \in Modules : \A B \in Modules :
    B \in importedModules[A] <=> A \in importers[B]

\* a graph that calls of updateModuleInfo built: c.js imports a.js and b.js
\* and accepts a.js, b.js imports nothing
C25_Witness ==
  /\ importedModules["/src/b.js"] = {}
  /\ importedModules["/src/c.js"] = {"/src/a.js", "/src/b.js"}
  /\ importers["/src/a.js"] = {"/src/c.js"}
  /\ acceptedHmrDeps["/src/c.js"] = {"/src/a.js"}

(***************************************************************************)
(* Claims about HMR propagation (SpecPropagate, FairPropagate)             *)
(***************************************************************************)
\* C26: on every acyclic graph and for every set of changed modules the
\* propagation ends, and its result is a set of boundaries or a full reload.
C26_PropagationTerminates ==
  /\ <>(hmrResult.type # "none")
  /\ [](hmrResult.type \in {"none", "update", "full-reload"})
  /\ [](hmrResult.type # "none" => hmrQueue = <<>> /\ affected = {})

C26_Witness ==
  /\ hmrResult.type = "update"
  /\ Cardinality(hmrResult.updates) = 2
  /\ Cardinality(changed) = 2
  /\ \E b \in boundaries : b.boundary # b.acceptedVia

\* the modules the change of c travels to: the ends of the import chains that
\* start at c and in which no module accepts itself and no importer lists the
\* module it imports in acceptedHmrDeps
TravelsTo(c) ==
  {x \in Modules :
     \E k \in 1..Cardinality(Modules) : \E chain \in [1..k -> Modules] :
       /\ chain[1] = c
       /\ chain[k] = x
       /\ \A i \in 1..(k - 1) :
            /\ ~isSelfAccepting[chain[i]]
            /\ chain[i + 1] \in importers[chain[i]]
            /\ chain[i] \notin acceptedHmrDeps[chain[i + 1]]}

\* a module without importers is reached without passing an accepting module
ReachesRoot(c) ==
  \E x \in TravelsTo(c) : ~isSelfAccepting[x] /\ importers[x] = {}

\* the nearest accepting modules, each with the module it accepts
NearestAccepting(c) ==
  {[path |-> x, acceptedPath |-> x] : x \in {y \in TravelsTo(c) : isSelfAccepting[y]}}
  \cup
  {[path |-> e[1], acceptedPath |-> e[2]] :
     e \in {f \in Modules \X Modules :
              /\ f[2] \in TravelsTo(c)
              /\ ~isSelfAccepting[f[2]]
              /\ f[1] \in importers[f[2]]
              /\ f[2] \in acceptedHmrDeps[f[1]]}}

\* C27: the result is a full reload if from a changed module a module without
\* importers is reached without passing an accepting module; otherwise it is
\* one update per nearest accepting module, with path the boundary's url and
\* acceptedPath the url of the module it accepts.
C27_BoundariesOrFullReload ==
  hmrResult.type # "none" =>
    IF \E c \in changed : ReachesRoot(c)
    THEN hmrResult.type = "full-reload"
    ELSE /\ hmrResult.type = "update"
         /\ hmrResult.updates = UNION {NearestAccepting(c) : c \in changed}

\* c.js changed; b.js imports it without accepting it, and a.js accepts b.js
C27_Witness ==
  /\ changed = {"/src/c.js"}
  /\ importers["/src/c.js"] = {"/src/b.js"}
  /\ hmrResult = [type |-> "update",
                  updates |-> {[path |-> "/src/a.js", acceptedPath |-> "/src/b.js"]}]

\* the modules reachable upward from m through importers that do not accept
\* the module they import: neither self-accepting nor listing it in
\* acceptedHmrDeps
NonAcceptingAncestors(m) ==
  {x \in Modules :
     \E k \in 1..Cardinality(Modules) : \E chain \in [1..k -> Modules] :
       /\ chain[1] = m
       /\ chain[k] = x
       /\ \A i \in 1..(k - 1) :
            /\ chain[i + 1] \in importers[chain[i]]
            /\ ~isSelfAccepting[chain[i + 1]]
            /\ chain[i] \notin acceptedHmrDeps[chain[i + 1]]}

\* C28: after invalidateModule(M), every module reachable upward from M through
\* importers that do not accept the dependency has a lastInvalidationTimestamp
\* at least as large as M's.
C28_InvalidationClosure ==
  lastInvalidated # NoModule =>
    \A x \in NonAcceptingAncestors(lastInvalidated) :
      lastInvalidationTimestamp[x] >= lastInvalidationTimestamp[lastInvalidated]

\* c.js was invalidated at time 2; b.js imports it and a.js imports b.js, none
\* accepting, and both carry the timestamp
C28_Witness ==
  /\ lastInvalidated = "/src/c.js"
  /\ NonAcceptingAncestors("/src/c.js") = Modules
  /\ lastInvalidationTimestamp["/src/c.js"] = 2
  /\ lastInvalidationTimestamp["/src/a.js"] = 2

\* C29: a module with a transformResult has lastInvalidationTimestamp 0, and
\* every step that sets a module's lastInvalidationTimestamp sets it to the
\* time of the invalidation and leaves the module without transformResult.
C29_CacheCoherence ==
  /\ [](\A m \in Modules :
          transformResult[m] # NoResult => lastInvalidationTimestamp[m] = 0)
  /\ [][\A m \in Modules :
          (lastInvalidationTimestamp'[m] # lastInvalidationTimestamp[m]
           /\ lastInvalidationTimestamp'[m] # 0)
          => /\ lastInvalidationTimestamp'[m] = now
             /\ transformResult'[m] = NoResult]_vars

\* a.js was transformed, a caller received the result, and then c.js, which
\* a.js imports through b.js, was invalidated: a.js is stale and has no result
C29_Witness ==
  /\ \E c \in Callers : handed[c] = [gen |-> 0, code |-> 0]
  /\ lastInvalidated = "/src/c.js"
  /\ generation = 1
  /\ lastInvalidationTimestamp[TransformUrl] > 0
  /\ transformResult[TransformUrl] = NoResult

\* C30: the pipeline is started at most once in every invalidation generation,
\* and the callers of one generation all receive the same result.
C30_OnePipelineRunPerGeneration ==
  /\ \A g \in 0..MaxGens : pipelineRuns[g] <= 1
  /\ \A c1, c2 \in Callers :
       (handed[c1] # NoAnswer /\ handed[c1].gen = handed[c2].gen)
       => handed[c1].code = handed[c2].code

\* two callers asked for the url before the pipeline settled and both received
\* its result
C30_Witness ==
  /\ pipelineRuns[0] = 1
  /\ \A c \in {1, 2} : handed[c] = [gen |-> 0, code |-> 0]
  /\ transformResult[TransformUrl] = [code |-> 0]

(***************************************************************************)
(* Claims about prune payloads (SpecPrune)                                 *)
(***************************************************************************)
\* the positions of the log, after position i, that are a prune payload
\* listing m
PrunesAfter(i, m) ==
  {j \in (i + 1)..Len(hmrLog) : hmrLog[j].type = "prune" /\ m \in hmrLog[j].paths}

\* the first position after i at which m is marked unreachable again, or the
\* end of the log
NextCeasing(i, m) ==
  LET later == {j \in (i + 1)..Len(hmrLog) :
                  hmrLog[j].type = "unreachable" /\ m \in hmrLog[j].paths}
  IN IF later = {} THEN Len(hmrLog) + 1
     ELSE CHOOSE j \in later : \A k \in later : j <= k

\* C31: every time a module ceases to be reachable, exactly one prune payload
\* lists it before it next ceases to be reachable, and no update payload is
\* sent between its becoming unreachable and that prune payload.
C31_PrunedOnceBeforeUpdate ==
  \A i \in DOMAIN hmrLog : hmrLog[i].type = "unreachable" =>
    \A m \in hmrLog[i].paths :
      LET prunes == {j \in PrunesAfter(i, m) : j < NextCeasing(i, m)} IN
      /\ Cardinality(prunes) = 1
      /\ \A j \in prunes : \A k \in (i + 1)..(j - 1) : hmrLog[k].type # "update"

\* c.js ceased to be reachable, was pruned, and an update payload followed
C31_Witness ==
  /\ Len(hmrLog) >= 3
  /\ hmrLog[1].type = "unreachable" /\ "/src/c.js" \in hmrLog[1].paths
  /\ hmrLog[2] = [type |-> "prune", paths |-> hmrLog[1].paths]
  /\ hmrLog[3].type = "update"

(***************************************************************************)
(* Claims about the sorted hook lists (SpecHooks)                          *)
(***************************************************************************)
\* C32: in every list getSortedPlugins returns, the server-only plugins come
\* after every other plugin of the list, client-inject before
\* import-analysis, whatever enforce and hook order the user plugins declare.
C32_ServerOnlyPluginsLast ==
  \A c \in DOMAIN sortedCalls :
    LET list == sortedCalls[c].list IN
    \A i, j \in DOMAIN list :
      /\ (list[i].name \in ServerOnly /\ list[j].name \notin ServerOnly) => j < i
      /\ (list[i].name = "vite:client-inject" /\ list[j].name = "vite:import-analysis")
         => i < j

\* the group of the sorted list p's hook puts it in
OrderRank(p, hookName) ==
  IF HookOf(p, hookName) = "pre" THEN 1
  ELSE IF HookOf(p, hookName) = "post" THEN 3 ELSE 2

\* where p stands in resolved.plugins
PluginIndex(p) == CHOOSE i \in DOMAIN plugins : plugins[i] = p

\* C33: a list returned for a hook holds exactly the plugins that define the
\* hook, each once: those with order 'pre', then those with a function or an
\* object without order, then those with order 'post', each group in the
\* order of resolved.plugins; and all calls for one hook return the same list.
C33_SortedByHookOrder ==
  \A c \in DOMAIN sortedCalls :
    LET list == sortedCalls[c].list
        h == sortedCalls[c].hookName
    IN
    /\ Range(list) = {p \in Range(plugins) : HookOf(p, h) # "absent"}
    /\ Len(list) = Cardinality(Range(list))
    /\ \A i, j \in DOMAIN list :
         i < j =>
           \/ OrderRank(list[i], h) < OrderRank(list[j], h)
           \/ /\ OrderRank(list[i], h) = OrderRank(list[j], h)
              /\ PluginIndex(list[i]) < PluginIndex(list[j])
    /\ \A d \in DOMAIN sortedCalls :
         sortedCalls[d].hookName = h => sortedCalls[d].list = list

\* three plugins whose transform hooks are { order: 'post' }, an object
\* without order and { order: 'pre' }: two calls return the list with the
\* 'pre' hook first and the 'post' hook last
C33_Witness ==
  /\ Flat(userPlugins) = <<UserPlugin(1, "none", "post"), UserPlugin(2, "none", "obj"),
                           UserPlugin(3, "none", "pre")>>
  /\ Len(sortedCalls) = 2
  /\ \A c \in {1, 2} :
       sortedCalls[c] =
         [hookName |-> "transform",
          list |-> <<UserPlugin(3, "none", "pre"), Internal("vite:resolve", "fn"),
                     UserPlugin(2, "none", "obj"),
                     Internal("vite:client-inject", "absent"),
                     Internal("vite:import-analysis", "absent"),
                     UserPlugin(1, "none", "post")>>]

(***************************************************************************)
(* Claims about the accept callbacks of an update (SpecLoaded)             *)
(***************************************************************************)
\* the function fetchUpdate returned for task t has been called
Applied(t) ==
  /\ tasks[t].status = "fn"
  /\ tasks[t].import \in {"ok", "failed"}
  /\ BatchOf(t) # 0
  /\ batches[BatchOf(t)].applied

\* the accept callbacks invoked for task t, in invocation order
InvokedFor(t) ==
  LET Of(e) == e.msg = tasks[t].msg /\ e.idx = tasks[t].idx
      entries == SelectSeq(log, Of)
  IN [i \in DOMAIN entries |-> entries[i].cb]

\* of the registrations cbs, the callbacks whose deps include acceptedPath
Accepting(cbs, acceptedPath) ==
  LET Lists(c) == \E j \in DOMAIN c.deps : c.deps[j] = acceptedPath
      listed == SelectSeq(cbs, Lists)
  IN [i \in DOMAIN listed |-> listed[i].fn]

\* C34, as stated: the accept callbacks invoked for a js-update are exactly
\* those registered on the boundary module when the update's re-import
\* started, whose deps include acceptedPath.
C34_RegisteredBeforeImport ==
  \A t \in DOMAIN tasks :
    Applied(t) => InvokedFor(t) = Accepting(tasks[t].atImport, tasks[t].acceptedPath)

\* C34, amended: the accept callbacks invoked for a js-update are exactly
\* those registered on the boundary module when fetchUpdate was called for the
\* update, before its dispose callback was awaited and its re-import started,
\* whose deps include acceptedPath.
C34_RegisteredBeforeFetch ==
  \A t \in DOMAIN tasks :
    Applied(t) =>
      InvokedFor(t) = Accepting(tasks[t].registered, tasks[t].acceptedPath)

\* the re-imported /a.js has re-created its context and accepted again; the
\* update invoked the callback of the old context only, not the one for /b.js
C34_Witness ==
  \E t \in DOMAIN tasks :
    /\ Applied(t)
    /\ tasks[t].import = "ok"
    /\ InvokedFor(t) = <<[owner |-> "/a.js", gen |-> 1, n |-> 1]>>
    /\ ctxGen["/a.js"] = 2
    /\ hotModulesMap["/a.js"].callbacks =
         <<[deps |-> <<"/a.js">>, fn |-> [owner |-> "/a.js", gen |-> 2, n |-> 1]]>>

(***************************************************************************)
(* Claims about update payloads and the error overlay (SpecOverlay)        *)
(***************************************************************************)
\* this step is handleMessage handling an update payload
UpdateStep == msgCount' = msgCount + 1 /\ lastMsg'.type = "update"

\* the step reloads the page: no fetchUpdate call is made, no dispose
\* callback, re-import or accept callback runs
ReloadsOnly ==
  /\ reloadRequested'
  /\ tasks' = tasks /\ queued' = queued /\ log' = log
  /\ \A i \in DOMAIN lastRun' : lastRun'[i].kind # "dispose"

\* the step clears the overlay and calls fetchUpdate for every update of the
\* payload: the dispose callback of the accepted module has been called and
\* the update is queued
ClearsAndApplies ==
  /\ overlays' = 0
  /\ reloadRequested' = reloadRequested
  /\ Len(tasks') = Len(tasks) + Len(lastMsg'.arg)
  /\ \A i \in DOMAIN lastMsg'.arg :
       LET t == Len(tasks) + i
           u == lastMsg'.arg[i] IN
       /\ tasks'[t].path = u.path /\ tasks'[t].acceptedPath = u.acceptedPath
       /\ \E j \in DOMAIN queued' : queued'[j] = t
       /\ hotModulesMap[u.path].has /\ disposeMap[u.acceptedPath] # NoCb
          /\ (u.path = u.acceptedPath \/
              \E c \in Range(hotModulesMap[u.path].callbacks) :
                u.acceptedPath \in Range(c.deps))
            => \E j \in DOMAIN lastRun' :
                 /\ lastRun'[j].kind = "dispose"
                 /\ lastRun'[j].cb = disposeMap[u.acceptedPath]

\* C35, as stated: the first update payload the page receives, when an error
\* overlay is displayed, makes the client reload and apply nothing; every
\* later update payload clears the overlay and is applied.
C35_FirstPayloadReloads ==
  [][UpdateStep =>
       /\ ~updateReceived /\ overlays > 0 => ReloadsOnly
       /\ updateReceived => ClearsAndApplies]_vars

\* C35, amended: an update payload that arrives while an error overlay is
\* displayed and no update payload has been applied on the page yet makes the
\* client reload and apply nothing; every other update payload clears the
\* overlay and is applied.
C35_ReloadsUntilApplied ==
  [][UpdateStep =>
       IF isFirstUpdate /\ overlays > 0 THEN ReloadsOnly ELSE ClearsAndApplies]_vars

\* the first update payload found the overlay of an error payload and made
\* the client reload: /a.js has its callbacks, none of them ran
C35_Witness ==
  /\ lastMsg.type = "update" /\ lastMsg.reloaded
  /\ lastMsg.seq = 2
  /\ overlays > 0 /\ reloadRequested /\ isFirstUpdate
  /\ hotModulesMap["/a.js"].callbacks # <<>>
  /\ tasks = <<>> /\ log = <<>>

(***************************************************************************)
(* Claims about a failed re-import (SpecOverlay)                           *)
(***************************************************************************)
\* fetchUpdate has nothing left to wait for in task t: it returned without
\* importing, or its re-import has settled
Over(t) ==
  tasks[t].status \in {"fn", "undefined"} \/ tasks[t].import \in {"ok", "failed"}

\* the modules passed to each accept callback invoked for task t
PassedTo(t) ==
  LET Of(e) == e.msg = tasks[t].msg /\ e.idx = tasks[t].idx
      entries == SelectSeq(log, Of)
  IN [i \in DOMAIN entries |-> entries[i].mods]

CustomsIn(frames) == LET IsCustom(f) == f.type = "custom" IN SelectSeq(frames, IsCustom)

\* the custom events passed to socket.send so far, socket after socket, then
\* the ones still buffered
EventsInOrder ==
  LET SentUpTo[s \in 0..MaxSockets] ==
        IF s = 0 THEN <<>> ELSE SentUpTo[s - 1] \o CustomsIn(clientSent[s])
  IN SentUpTo[MaxSockets] \o messageBuffer

\* C37: the events of hot.send calls are sent or buffered in call order, each
\* once; a call made while the socket is not open only buffers its event;
\* nothing is passed to a socket that is not open; handling `connected`
\* passes the whole buffer, in order, to the socket and empties it.
C37_BufferedUntilConnected ==
  /\ [](\A i, j \in DOMAIN EventsInOrder :
          i < j => EventsInOrder[i].n < EventsInOrder[j].n)
  /\ [][/\ \A s \in SocketIds :
             clientSent'[s] # clientSent[s] => sockets[s].state = "open"
        /\ hotCalls' # hotCalls /\ EventsInOrder' # EventsInOrder
           /\ sockets[CurrentSocket].state # "open"
           => /\ clientSent' = clientSent
              /\ Len(messageBuffer') = Len(messageBuffer) + 1
              /\ SubSeq(messageBuffer', 1, Len(messageBuffer)) = messageBuffer
        /\ lastMsg'.type = "connected" /\ msgCount' # msgCount
           => /\ messageBuffer' = <<>>
              /\ clientSent'[CurrentSocket] =
                   clientSent[CurrentSocket] \o messageBuffer]_vars

\* two events were passed to hot.send while the socket was connecting; the
\* socket has opened, `connected` has been handled and both were sent, in
\* call order
C37_Witness ==
  /\ lastMsg.type = "connected"
  /\ messageBuffer = <<>>
  /\ Len(clientSent[CurrentSocket]) = 2
  /\ \A i \in 1..2 : clientSent[CurrentSocket][i].type = "custom"
                     /\ clientSent[CurrentSocket][i].calledWhile = "connecting"
  /\ clientSent[CurrentSocket][1].n < clientSent[CurrentSocket][2].n

(***************************************************************************)
(* Claims about error payloads on the server (SpecWs)                      *)
(***************************************************************************)
\* C38: an error payload passed to send() is sent to at least one open client
\* or buffered, whatever wss.clients holds.
C38_ErrorSentOrBuffered ==
  [][\A args \in SendArgs :
       Send(args) /\ args.type = "error" =>
         LET payload == ErrorPayload(sendCount + 1) IN
         \/ bufferedError' = payload
         \/ \E c \in Sockets :
              /\ readyState[c] = OPEN
              /\ wire'[c] # <<>>
              /\ wire'[c][Len(wire'[c])] = payload]_vars

\* the connections that send() or the connection handler passed payload to
SentTo(payload) == {c \in Sockets : payload \in Range(Stream(c))}

\* C39: bufferedError is empty or holds the latest error passed to send()
\* while wss.clients was empty since the last connection was accepted; an
\* error that was buffered when a connection was accepted has been sent to
\* that connection only, once, and is buffered no longer; an error that was
\* replaced in the buffer has been sent to none.
C39_OneBufferedErrorOneDelivery ==
  /\ bufferedError # NoError =>
       \E e \in noClientErrors :
         e.conn = 0 /\ ~Superseded(e) /\ bufferedError = ErrorPayload(e.id)
  /\ \A e \in noClientErrors :
       LET payload == ErrorPayload(e.id) IN
       IF e.conn = 0 \/ Superseded(e) THEN SentTo(payload) = {}
       ELSE /\ SentTo(payload) = {e.conn}
            /\ Cardinality({i \in DOMAIN Stream(e.conn) :
                              Stream(e.conn)[i] = payload}) = 1
            /\ bufferedError # payload

\* two errors were passed to send() before any connection: the first
\* connection was sent the second one, the next connection was sent none
C39_Witness ==
  \E e, f \in noClientErrors :
    /\ e.conn = 1 /\ f.conn = 1 /\ f.id > e.id
    /\ Stream(1) = <<Connected, ErrorPayload(f.id)>>
    /\ readyState[2] = OPEN
    /\ Stream(2) = <<Connected>>
    /\ bufferedError = NoError

(***************************************************************************)
(* Claims about loadConfigFromBundledFile (SpecBundle)                     *)
(***************************************************************************)
\* the call that finishes in this step
Finishing == bundleResult'[Len(bundleResult')]

\* C40: when a call for a CommonJS config finishes, returning or throwing,
\* _require.extensions holds the loaders it held when the call was made; when
\* a call for an ESM config finishes, the temporary file it wrote is gone.
C40_LoaderRestoredTmpRemoved ==
  [][Len(bundleResult') = Len(bundleResult) + 1 =>
       IF Finishing.esm
       THEN FileNameTmp(Finishing.fileName, Finishing.stamp) \notin tmpFiles'
       ELSE extLoader' = extLoader]_vars
====
